---- MODULE Spec2Model ----
(***************************************************************************)
(* Model of the Helix self-healing cortex (SelfHealingCortex: execute,     *)
(* executeJSON, executeWithBuildCheck, extractJSON, repairCode), of        *)
(* spawnApp (database loop and generation of routes and pages), of         *)
(* generateStack, of the PluginRegistry, of writeFileSystemMap and of      *)
(* detectViewType.                                                         *)
(*                                                                         *)
(* A JavaScript string is a sequence of tokens (a token is one character,  *)
(* or one opaque piece of text such as an error message); concatenation    *)
(* and template strings are \o, the empty string is << >>.                 *)
(***************************************************************************)
EXTENDS Integers, Sequences, FiniteSets, TLC

\* ------------------------------------------------------------------------
\* Bounds of the model
\* ------------------------------------------------------------------------

\* how many distinct error messages the collaborators can fail with
NumMsgs == 2

\* how many distinct values a generator / parseAndValidate can return
NumVals == 2

\* longest string literal (in characters) inside a generated JSON value
MaxStrLen == 1

\* the validator scripts considered: fail the first N calls, N in 0..MaxFailN
MaxFailN == 4

\* ------------------------------------------------------------------------
\* JavaScript string primitives used by the source
\* ------------------------------------------------------------------------

Min(a, b) == IF a < b THEN a ELSE b

\* characters String.prototype.trim removes
IsSpace(c) == c \in {" ", "\n"}

RECURSIVE TrimLeft(_)
TrimLeft(s) ==
    IF s # << >> /\ IsSpace(Head(s)) THEN TrimLeft(Tail(s)) ELSE s

RECURSIVE TrimRight(_)
TrimRight(s) ==
    IF s # << >> /\ IsSpace(s[Len(s)]) THEN TrimRight(SubSeq(s, 1, Len(s) - 1)) ELSE s

\* s.trim()
Trim(s) == TrimRight(TrimLeft(s))

\* s.startsWith(p)
StartsWith(s, p) == Len(s) >= Len(p) /\ SubSeq(s, 1, Len(p)) = p

\* s.endsWith(p)
EndsWith(s, p) == Len(s) >= Len(p) /\ SubSeq(s, Len(s) - Len(p) + 1, Len(s)) = p

\* s.slice(k) for k >= 0 (0-based)
SliceFrom(s, k) == SubSeq(s, k + 1, Len(s))

\* s.slice(0, e): e >= 0 counts from the start, e < 0 from the end
SliceTo(s, e) == IF e >= 0 THEN SubSeq(s, 1, Min(e, Len(s))) ELSE SubSeq(s, 1, Len(s) + e)

\* s.indexOf(c): 0-based position of the first c, -1 when there is none
IndexOf(s, c) ==
    IF \E i \in 1..Len(s) : s[i] = c
    THEN (CHOOSE i \in 1..Len(s) : s[i] = c /\ \A j \in 1..(i - 1) : s[j] # c) - 1
    ELSE -1

\* the backtick character
Tick == "tick"

\* the markdown fence markers the source looks for
Fence == <<Tick, Tick, Tick>>
FenceJson == <<Tick, Tick, Tick, "j", "s", "o", "n">>

\* ------------------------------------------------------------------------
\* SelfHealingCortex.extractJSON
\* ------------------------------------------------------------------------

\* the first two fence tests: a leading fence (three backticks, or three backticks and json) is cut off
StripLeadingFence(json) ==
    IF StartsWith(json, FenceJson) THEN SliceFrom(json, 7)
    ELSE IF StartsWith(json, Fence) THEN SliceFrom(json, 3)
    ELSE json

\* the third fence test: a trailing fence is cut off
StripTrailingFence(json) ==
    IF EndsWith(json, Fence) THEN SliceTo(json, -3) ELSE json

\* start index: the first "{" or "[", whichever comes first, -1 when neither
JsonStart(json) ==
    LET startBrace == IndexOf(json, "{")
        startBracket == IndexOf(json, "[")
    IN  IF startBrace = -1 THEN startBracket
        ELSE IF startBracket = -1 THEN startBrace
        ELSE Min(startBrace, startBracket)

\* json.slice(start) when a start was found
SliceAtStart(json) ==
    IF JsonStart(json) # -1 THEN SliceFrom(json, JsonStart(json)) ELSE json

\* the for loop: i is the 0-based index, depth the counter before json[i] is
\* read; the result is the value of end (0 when the loop runs off the string)
RECURSIVE MatchEnd(_, _, _, _, _)
MatchEnd(json, openChar, closeChar, i, depth) ==
    IF i >= Len(json) THEN 0
    ELSE LET d1 == IF json[i + 1] = openChar THEN depth + 1 ELSE depth
             d2 == IF json[i + 1] = closeChar THEN d1 - 1 ELSE d1
         IN  IF d2 = 0 THEN i + 1
             ELSE MatchEnd(json, openChar, closeChar, i + 1, d2)

\* closeChar = openChar === "{" ? "}" : "]"   (json[0] of "" is undefined)
CloseCharOf(json) == IF json # << >> /\ json[1] = "{" THEN "}" ELSE "]"

\* the end of the matching structure, then json.slice(0, end) when end > 0
CutAtEnd(json) ==
    LET end == IF json = << >> THEN 0
               ELSE MatchEnd(json, json[1], CloseCharOf(json), 0, 0)
    IN  IF end > 0 THEN SliceTo(json, end) ELSE json

extractJSON(response) ==
    Trim(CutAtEnd(SliceAtStart(StripTrailingFence(StripLeadingFence(Trim(response))))))

\* ------------------------------------------------------------------------
\* JSON.parse, as far as executeJSON depends on it: whether the text is one
\* JSON value (string, number, array, object) with optional white space
\* around it. A position is 1-based; 0 stands for a SyntaxError.
\* ------------------------------------------------------------------------

RECURSIVE SkipWs(_, _)
SkipWs(s, i) == IF i <= Len(s) /\ IsSpace(s[i]) THEN SkipWs(s, i + 1) ELSE i

\* s[i] is the opening quote; the position after the closing quote
RECURSIVE StringBody(_, _)
StringBody(s, i) ==
    IF i > Len(s) \/ s[i] = "\n" THEN 0
    ELSE IF s[i] = "\"" THEN i + 1
    ELSE StringBody(s, i + 1)

IsDigit(c) == c \in {"1"}

RECURSIVE NumberEnd(_, _)
NumberEnd(s, i) == IF i <= Len(s) /\ IsDigit(s[i]) THEN NumberEnd(s, i + 1) ELSE i

RECURSIVE ParseValue(_, _)
RECURSIVE ParseElements(_, _)
RECURSIVE ParseMembers(_, _)

ParseValue(s, i) ==
    LET j == SkipWs(s, i)
    IN  IF j > Len(s) THEN 0
        ELSE IF s[j] = "\"" THEN StringBody(s, j + 1)
        ELSE IF IsDigit(s[j]) THEN NumberEnd(s, j)
        ELSE IF s[j] = "["
             THEN LET k == SkipWs(s, j + 1)
                  IN  IF k <= Len(s) /\ s[k] = "]" THEN k + 1 ELSE ParseElements(s, j + 1)
        ELSE IF s[j] = "{"
             THEN LET k == SkipWs(s, j + 1)
                  IN  IF k <= Len(s) /\ s[k] = "}" THEN k + 1 ELSE ParseMembers(s, j + 1)
        ELSE 0

\* value ("," value)* "]"
ParseElements(s, i) ==
    LET p == ParseValue(s, i)
        k == SkipWs(s, p)
    IN  IF p = 0 \/ k > Len(s) THEN 0
        ELSE IF s[k] = "," THEN ParseElements(s, k + 1)
        ELSE IF s[k] = "]" THEN k + 1
        ELSE 0

\* string ":" value ("," string ":" value)* "}"
ParseMembers(s, i) ==
    LET j == SkipWs(s, i)
        p == IF j <= Len(s) /\ s[j] = "\"" THEN StringBody(s, j + 1) ELSE 0
        k == SkipWs(s, p)
        v == IF p # 0 /\ k <= Len(s) /\ s[k] = ":" THEN ParseValue(s, k + 1) ELSE 0
        m == SkipWs(s, v)
    IN  IF v = 0 \/ m > Len(s) THEN 0
        ELSE IF s[m] = "," THEN ParseMembers(s, m + 1)
        ELSE IF s[m] = "}" THEN m + 1
        ELSE 0

\* JSON.parse(text) returns (TRUE) or throws a SyntaxError (FALSE)
JsonParses(text) ==
    LET p == ParseValue(text, 1)
    IN  p # 0 /\ SkipWs(text, p) = Len(text) + 1

\* ------------------------------------------------------------------------
\* Values the collaborators of the cortex exchange with it
\* ------------------------------------------------------------------------

MAX_REPAIR_ATTEMPTS == 2

AllMsgs == <<"e1", "e2", "e3", "e4">>
AllVals == <<"v1", "v2", "v3", "v4">>
Digits == <<"1", "2", "3", "4", "5">>

\* error messages and returned values, each a one-token string
Msgs == {<<AllMsgs[i]>> : i \in 1..NumMsgs}
Vals == {<<AllVals[i]>> : i \in 1..NumVals}

\* What a collaborator can throw (reject with): an Error object with a
\* message, possibly the empty one, or the value undefined.
Thrown ==
    [kind : {"Error"}, message : Msgs \cup {<< >>}]
        \cup {[kind |-> "undefined", message |-> << >>]}

\* reading error.message succeeds unless error is undefined (or null)
HasProperties(error) == error.kind # "undefined"

\* the TypeError raised by reading a property of undefined
TypeErrorOfUndefined ==
    [kind |-> "Error",
     message |-> <<"Cannot read properties of undefined (reading 'message')">>]

\* the SyntaxError raised by JSON.parse
JsonSyntaxError == [kind |-> "Error", message |-> <<"Unexpected token in JSON">>]

\* error.message || String(error), for an error with properties
ErrorText(error) ==
    IF error.message # << >> THEN error.message ELSE <<"Error">>

\* what buildChecker resolves to: {success, error?}
BuildResults ==
    {[success |-> TRUE, error |-> << >>]}
        \cup {[success |-> FALSE, error |-> m] : m \in Msgs \cup {<< >>}}

\* buildResult.error || "Build failed"
BuildErrorText(buildResult) ==
    IF buildResult.error # << >> THEN buildResult.error ELSE <<"Build failed">>

\* the labels the three executors put between "Attempt N: " and the error
ValidationLabel == <<"Validation failed - ">>
GenerationLabel == <<"Generation failed - ">>
BuildLabel == <<"Build failed - ">>
NoLabel == << >>

\* LogEntry with the attempt number off by one
MutLogEntry(n, label, error) == <<"Attempt ", Digits[n + 1], ": ">> \o label \o error

\* the template string pushed on the repair log
LogEntry(n, label, error) == <<"Attempt ", Digits[n], ": ">> \o label \o error

\* LoopContinues that lets one more attempt start
MutLoopContinuesOnceMore(a) == a <= MAX_REPAIR_ATTEMPTS + 1

\* LoopContinues with < for <=
MutLoopContinues(a) == a < MAX_REPAIR_ATTEMPTS

\* the while condition of the three executors
LoopContinues(a) == a <= MAX_REPAIR_ATTEMPTS

\* the test guarding the repair request inside a failed attempt
RepairRemains(a) == a <= MAX_REPAIR_ATTEMPTS

\* SelfHealingCortex.createRepairPrompt
createRepairPrompt(originalPrompt, error) ==
    <<"The previous generation had an error:\nERROR: ">> \o error
        \o <<"\n\nPlease fix the issue and regenerate. [...]\n\nORIGINAL REQUEST:\n">>
        \o originalPrompt

\* the user prompt repairCode builds from the broken code and the error
RepairCodePrompt(brokenCode, error) ==
    <<"Fix this code that has an error:\n\nERROR:\n">> \o error
        \o <<"\n\nCODE:\n">> \o brokenCode \o <<"\n\nReturn the fixed code only.">>

\* the cleaning repairCode applies to the completion it got
CleanRepairResponse(response) ==
    LET code == Trim(response)
        c1 == IF StartsWith(code, Fence)
              THEN SliceFrom(code, IndexOf(code, "\n") + 1) ELSE code
        c2 == IF EndsWith(c1, Fence) THEN SliceTo(c1, -3) ELSE c1
    IN  Trim(c2)

\* the message executeJSON returns after its loop
FailedAfter(n, error) == <<"Failed after ", Digits[n], " attempts: ">> \o error

\* PlainError that leaves the error field empty
MutPlainError(n, error) == << >>

\* the error field of execute and executeWithBuildCheck after the loop
PlainError(n, error) == error

\* ------------------------------------------------------------------------
\* State
\* ------------------------------------------------------------------------

VARIABLES
    fn,             \* the executor method that is running or ran last
    pc,             \* idle, the external call being awaited, returned, rejected
    attempts,       \* local: attempts
    lastError,      \* local: lastError
    repairLog,      \* field: this.repairLog
    currentPrompt,  \* local of executeJSON
    currentCode,    \* local of executeWithBuildCheck
    userPrompt,     \* parameter of executeJSON
    callArg,        \* what the awaited external call was handed
    result,         \* the GenerationResult the call resolved to
    failures,       \* history: the failures of this call, [attempt, op, text]
    lastResponse,   \* history: the completion text of the current attempt
    repairOut,      \* history: the latest output of repairCode, [attempt, code]
    invocations,    \* history: the calls of this call, [attempt, op, done]
    produced        \* history: what the current attempt generated and had accepted

execVars == <<fn, pc, attempts, lastError, repairLog, currentPrompt, currentCode,
              userPrompt, callArg, result, failures, lastResponse, repairOut,
              invocations, produced>>

\* extractJSON applied to one text
VARIABLES
    exText,         \* the response handed to extractJSON
    exValue,        \* history: the JSON value the response was built around
    exOut,          \* what extractJSON returned
    exDone          \* whether extractJSON has run

extractVars == <<exText, exValue, exOut, exDone>>

\* the database loop of spawnApp
VARIABLES
    spPc,            \* idle, the call being awaited, phase4, launched, exited
    spAttempts,      \* local: attempts
    spLastError,     \* local: lastError
    spCurrentSchema, \* local: currentSchema
    spDiskSchema,    \* the content of prisma/schema.prisma
    spArg,           \* what fixPrismaSchema handed to createCompletion
    spApplied,       \* history: the schemas prisma db push was run on
    spFixes,         \* history: the calls of fixPrismaSchema, [attempt, schema, error, out]
    spFixFailedAt,   \* history: the attempt whose schema repair rejected, or 0
    spGenerated,     \* the home page was written, the last file of phase 4
    spAst,           \* local: ast, the parsed blueprint
    spIdx,           \* phase 4: the position of the running for loop
    spRoutes,        \* the strands whose API route was written
    spPages,         \* the UI pages written: position of the view -> strand used
    spParses,        \* history: how often parseHelix was called
    spParseFailed,   \* history: parseHelix threw
    spDbBuilt,       \* history: a push and a client generation both succeeded
    spDbFailures     \* history: how many database attempts failed

spawnVars == <<spPc, spAttempts, spLastError, spCurrentSchema, spDiskSchema, spArg,
               spApplied, spFixes, spFixFailedAt, spGenerated, spAst, spIdx, spRoutes,
               spPages, spParses, spParseFailed, spDbBuilt, spDbFailures>>

\* detectViewType applied to the fields of one strand
VARIABLES
    dvFields,        \* the argument: fields, each with a name and a type
    dvOut,           \* what detectViewType returned
    dvDone           \* whether detectViewType has run

viewVars == <<dvFields, dvOut, dvDone>>

\* the plugin registry, one scanForPlugins call and the loadGenerator calls
VARIABLES
    rgPlugins,       \* field: this.plugins, target -> entry
    rgLoaded,        \* field: this.loadedPlugins, target -> plugin
    rgScanPc,        \* scanForPlugins: idle, readPkg, loop, done
    rgDeps,          \* scanForPlugins: the names of Object.entries(allDeps)
    rgIdx,           \* scanForPlugins: the position of the for loop in rgDeps
    rgSeen,          \* history: what registerExternalPlugin found for each candidate
    rgLoad,          \* the loadGenerator calls: pc, target, entry, returned value
    rgImports        \* history: how often import() was called for each target

registryVars == <<rgPlugins, rgLoaded, rgScanPc, rgDeps, rgIdx, rgSeen, rgLoad, rgImports>>

\* one writeFileSystemMap call and the files of the project directory
VARIABLES
    wfDisk,          \* the project directory: path -> content
    wfFiles,         \* parameter: fsMap.files
    wfOptions,       \* parameter: options.overwriteExisting
    wfPc,            \* idle, loop, returned
    wfIdx,           \* the position of the for loop in fsMap.files
    wfResults        \* local: results (written, skipped, errors)

writeVars == <<wfDisk, wfFiles, wfOptions, wfPc, wfIdx, wfResults>>

\* one generateStack call
VARIABLES
    gsPc,            \* idle, the call being awaited, returned, rejected, exited
    gsAst,           \* local: ast, the parsed blueprint
    gsIdx,           \* the position of the running for loop
    gsSchemaWritten, \* prisma/schema.prisma was written
    gsPushed,        \* prisma db push has run
    gsRoutes,        \* the strands whose API route was written
    gsPages,         \* the UI pages written: position of the view -> strand used
    gsHome,          \* the home page was written
    gsParses,        \* history: how often parseHelix was called
    gsParseFailed    \* history: parseHelix threw

stackVars == <<gsPc, gsAst, gsIdx, gsSchemaWritten, gsPushed, gsRoutes, gsPages, gsHome,
               gsParses, gsParseFailed>>

\* one mergeFileSystemMaps call
VARIABLES
    mgBase,          \* parameter: base
    mgOverlay,       \* parameter: overlay
    mgOut,           \* the FileSystemMap returned
    mgDone           \* whether mergeFileSystemMaps has run

mergeVars == <<mgBase, mgOverlay, mgOut, mgDone>>

\* two execute calls on one SelfHealingCortex instance
VARIABLES
    shPc,            \* per call: idle, generator, returned, rejected
    shAttempts,      \* per call, local: attempts
    shLastError,     \* per call, local: lastError
    shResult,        \* per call: the GenerationResult, repairLog an array reference
    shRepairLog,     \* field: this.repairLog, a reference to an array
    shArrays         \* the arrays the field has referred to, by reference

sharedVars == <<shPc, shAttempts, shLastError, shResult, shRepairLog, shArrays>>

\* the file watcher of preview and the regenerations it triggers
VARIABLES
    pvMtime,         \* per watched file: stat.mtimeMs on disk
    pvLastMtime,     \* FileWatcher.lastMtime
    pvRuns,          \* the callbacks started, in order: [file, pc]
    pvExited         \* process.exit was called

previewVars == <<pvMtime, pvLastMtime, pvRuns, pvExited>>

moreVars == <<mergeVars, sharedVars, previewVars>>

toolVars == <<viewVars, registryVars, writeVars, stackVars, moreVars>>

vars == <<execVars, extractVars, spawnVars, toolVars>>

NoResult ==
    [success |-> FALSE, data |-> << >>, error |-> << >>, attempts |-> 0,
     repairLog |-> << >>]

NoRepair == [attempt |-> 0, code |-> << >>]

\* no value was accepted by a validator or build checker
Unaccepted == <<"not accepted">>

NoProduct == [attempt |-> 0, value |-> << >>, accepted |-> Unaccepted]

\* Finished that leaves the awaited call pending
MutFinished(calls) == calls

\* the awaited call, the last one started, resolved or rejected
Finished(calls) == [calls EXCEPT ![Len(calls)].done = TRUE]

\* an external call of attempt a starts and is awaited
Invoked(calls, a, op) == Append(calls, [attempt |-> a, op |-> op, done |-> FALSE])

\* a synchronous call of attempt a started and ended
Called(calls, a, op) == Append(calls, [attempt |-> a, op |-> op, done |-> TRUE])

\* the calls after the awaited one ended and, for op = "validator", the
\* validator or parseAndValidate ran on its result
AfterPass(calls, a, op) ==
    IF op = "validator" THEN Called(Finished(calls), a, op) ELSE Finished(calls)

\* the prompts executeJSON is called with
Prompts == {<<"p1">>}

\* completion texts the model answers executeJSON with
Responses ==
    { <<"{", "\"", "a", "\"", ":", "1", "}">>,
      FenceJson \o <<"\n", "{", "\"", "a", "\"", ":", "1", "}", "\n">> \o Fence,
      <<"a", " ", "[", "1", "]", " ", "a">>,
      <<"[", "\"", "]", "\"", "]">>,
      <<"{", "\"", "a", "\"", ":", "1">>,
      <<"1">>,
      <<"a">>,
      << >> }

\* completion texts the model answers repairCode with
RepairResponses ==
    Vals \cup {Fence \o <<"t", "s", "\n">> \o c \o <<"\n">> \o Fence : c \in Vals}

\* Map.prototype.set
MapSet(map, key, value) ==
    [k \in DOMAIN map \cup {key} |-> IF k = key THEN value ELSE map[k]]

\* an empty Map
EmptyMap == [k \in {} |-> << >>]

\* the local ast before parseHelix has returned
NoAst == [strands |-> << >>, views |-> << >>]

ExecInit ==
    /\ fn = "none"
    /\ pc = "idle"
    /\ attempts = 0
    /\ lastError = << >>
    /\ repairLog = << >>
    /\ currentPrompt = << >>
    /\ currentCode = << >>
    /\ userPrompt = << >>
    /\ callArg = << >>
    /\ result = NoResult
    /\ failures = << >>
    /\ lastResponse = << >>
    /\ repairOut = NoRepair
    /\ invocations = << >>
    /\ produced = NoProduct

ExtractIdle ==
    /\ exText = << >>
    /\ exValue = << >>
    /\ exOut = << >>
    /\ exDone = FALSE

SpawnIdle ==
    /\ spPc = "idle"
    /\ spAttempts = 0
    /\ spLastError = << >>
    /\ spCurrentSchema = << >>
    /\ spDiskSchema = << >>
    /\ spArg = << >>
    /\ spApplied = << >>
    /\ spFixes = << >>
    /\ spFixFailedAt = 0
    /\ spGenerated = FALSE
    /\ spAst = NoAst
    /\ spIdx = 0
    /\ spRoutes = {}
    /\ spPages = EmptyMap
    /\ spParses = 0
    /\ spParseFailed = FALSE
    /\ spDbBuilt = FALSE
    /\ spDbFailures = 0

ViewIdle ==
    /\ dvFields = << >>
    /\ dvOut = "none"
    /\ dvDone = FALSE

BUILT_IN_GENERATORS ==
    << [name |-> <<"helix-gen-", "flutter">>, target |-> <<"flutter">>,
        version |-> <<"10.0.0">>, modulePath |-> <<"../generators/flutter">>,
        isBuiltIn |-> TRUE],
       [name |-> <<"helix-gen-", "nextjs">>, target |-> <<"web">>,
        version |-> <<"10.0.0">>, modulePath |-> <<"../commands/spawn">>,
        isBuiltIn |-> TRUE] >>

\* the constructor's loop: this.plugins.set(plugin.target, plugin)
RECURSIVE RegisterBuiltIns(_, _)
RegisterBuiltIns(map, i) ==
    IF i > Len(BUILT_IN_GENERATORS) THEN map
    ELSE RegisterBuiltIns(MapSet(map, BUILT_IN_GENERATORS[i].target,
                                 BUILT_IN_GENERATORS[i]), i + 1)

\* how many loadGenerator calls are made on the registry
NumLoads == 2

Loaders == 1..NumLoads

\* the targets loadGenerator is asked for
LoadTargets == {<<"web">>, <<"vue">>}

NoEntry ==
    [name |-> << >>, target |-> << >>, version |-> << >>, modulePath |-> << >>,
     isBuiltIn |-> FALSE]

\* the value null, and the return value of a call that has not returned
Null == <<"null">>
NotReturned == << >>

LoadIdle == [pc |-> "idle", target |-> << >>, entry |-> NoEntry, ret |-> NotReturned]

RegistryInit ==
    /\ rgPlugins = RegisterBuiltIns(EmptyMap, 1)
    /\ rgLoaded = EmptyMap
    /\ rgScanPc = "idle"
    /\ rgDeps = << >>
    /\ rgIdx = 0
    /\ rgSeen = << >>
    /\ rgLoad = [l \in Loaders |-> LoadIdle]
    /\ rgImports = [t \in LoadTargets |-> 0]

NoResults == [written |-> 0, skipped |-> 0, errors |-> << >>]

WriteIdle ==
    /\ wfDisk = EmptyMap
    /\ wfFiles = << >>
    /\ wfOptions = "absent"
    /\ wfPc = "idle"
    /\ wfIdx = 0
    /\ wfResults = NoResults

StackIdle ==
    /\ gsPc = "idle"
    /\ gsAst = NoAst
    /\ gsIdx = 0
    /\ gsSchemaWritten = FALSE
    /\ gsPushed = FALSE
    /\ gsRoutes = {}
    /\ gsPages = EmptyMap
    /\ gsHome = FALSE
    /\ gsParses = 0
    /\ gsParseFailed = FALSE

\* a FileSystemMap without files and metadata
NoMap == [files |-> << >>, metadata |-> EmptyMap]

MergeIdle ==
    /\ mgBase = NoMap
    /\ mgOverlay = NoMap
    /\ mgOut = NoMap
    /\ mgDone = FALSE

\* the two calls made on the shared instance
Calls == {"first", "second"}

\* the array of the field initialiser
InitialArray == "initial"

SharedIdle ==
    /\ shPc = [c \in Calls |-> "idle"]
    /\ shAttempts = [c \in Calls |-> 0]
    /\ shLastError = [c \in Calls |-> << >>]
    /\ shResult = [c \in Calls |-> NoResult]
    /\ shRepairLog = InitialArray
    /\ shArrays = [a \in Calls \cup {InitialArray} |-> << >>]

\* the .helix files findHelixFiles returned
HelixFiles == <<"app.helix", "admin.helix">>

PreviewIdle ==
    /\ pvMtime = [f \in 1..Len(HelixFiles) |-> 1]
    /\ pvLastMtime = [f \in 1..Len(HelixFiles) |-> 1]
    /\ pvRuns = << >>
    /\ pvExited = FALSE

MoreIdle == MergeIdle /\ SharedIdle /\ PreviewIdle

ToolsIdle == ViewIdle /\ RegistryInit /\ WriteIdle /\ StackIdle /\ MoreIdle

Init == ExecInit /\ ExtractIdle /\ SpawnIdle /\ ToolsIdle

\* no executor call is in progress
Quiet == pc \in {"idle", "returned", "rejected"}

\* the entry of an executor: this.repairLog = [], the locals, and the first
\* pass through the loop head up to the first await
Enter(f, up, firstCall, arg) ==
    /\ Quiet
    /\ LoopContinues(0)
    /\ fn' = f
    /\ pc' = firstCall
    /\ attempts' = 1
    /\ lastError' = << >>
    /\ repairLog' = << >>
    /\ currentPrompt' = up
    /\ currentCode' = << >>
    /\ userPrompt' = up
    /\ callArg' = arg
    /\ result' = NoResult
    /\ failures' = << >>
    /\ lastResponse' = << >>
    /\ repairOut' = NoRepair
    /\ invocations' = Invoked(<< >>, 1, firstCall)
    /\ produced' = NoProduct
    /\ UNCHANGED <<extractVars, spawnVars, toolVars>>

\* return { success: true, data, attempts, repairLog: this.repairLog }
ReturnSuccess(data, calls) ==
    /\ pc' = "returned"
    /\ result' = [success |-> TRUE, data |-> data, error |-> << >>,
                  attempts |-> attempts, repairLog |-> repairLog]
    /\ callArg' = << >>
    /\ invocations' = calls
    /\ UNCHANGED <<fn, attempts, lastError, repairLog, currentPrompt, userPrompt,
                   failures, repairOut>>
    /\ UNCHANGED <<extractVars, spawnVars, toolVars>>

\* the return after the loop: { success: false, error, attempts, repairLog }
ReturnFailure(error, log) ==
    [success |-> FALSE, data |-> << >>, error |-> error, attempts |-> attempts,
     repairLog |-> log]

\* a catch clause that itself throws: the promise of the executor rejects
Reject(calls) ==
    /\ pc' = "rejected"
    /\ callArg' = << >>
    /\ invocations' = calls
    /\ UNCHANGED <<fn, attempts, lastError, repairLog, currentPrompt, currentCode,
                   userPrompt, result, failures, lastResponse, repairOut, produced>>
    /\ UNCHANGED <<extractVars, spawnVars, toolVars>>

\* the loop test after a pass that did not return: the next attempt starts
\* with a call of nextCall(arg), or the loop ends and the failure is returned
Loop(text, log, nextCall, arg, finalError, calls) ==
    /\ UNCHANGED <<extractVars, spawnVars, toolVars>>
    /\ lastError' = text
    /\ repairLog' = log
    /\ produced' = NoProduct
    /\ IF LoopContinues(attempts)
       THEN /\ attempts' = attempts + 1
            /\ pc' = nextCall
            /\ callArg' = arg
            /\ result' = result
            /\ invocations' = Invoked(calls, attempts + 1, nextCall)
       ELSE /\ attempts' = attempts
            /\ pc' = "returned"
            /\ callArg' = << >>
            /\ result' = ReturnFailure(finalError, log)
            /\ invocations' = calls

Failed(op, text) ==
    Append(failures, [attempt |-> attempts, op |-> op, text |-> text])

\* ------------------------------------------------------------------------
\* SelfHealingCortex.execute
\* ------------------------------------------------------------------------

\* the call of execute; generator() takes no argument
execute == Enter("execute", << >>, "generator", << >>)

\* either catch clause of execute, then the loop test
ExecuteCatch(op, label, error) ==
    LET text == ErrorText(error)
    IN  /\ Loop(text, Append(repairLog, LogEntry(attempts, label, text)),
                "generator", << >>, PlainError(attempts, text),
                AfterPass(invocations, attempts, op))
        /\ failures' = Failed(op, text)
        /\ UNCHANGED <<fn, currentPrompt, currentCode, userPrompt, lastResponse,
                       repairOut>>

\* generator() resolved with v and validator(v) returned
ExecuteValidated ==
    \E v \in Vals :
        /\ fn = "execute" /\ pc = "generator"
        /\ ReturnSuccess(v, AfterPass(invocations, attempts, "validator"))
        /\ produced' = [attempt |-> attempts, value |-> v, accepted |-> v]
        /\ UNCHANGED <<currentCode, lastResponse>>

\* generator() resolved with v and validator(v) threw error: the inner catch;
\* when reading error.message throws there, the outer catch gets the TypeError
ExecuteValidationFailed ==
    \E v \in Vals, error \in Thrown :
        /\ fn = "execute" /\ pc = "generator"
        /\ IF HasProperties(error)
           THEN ExecuteCatch("validator", ValidationLabel, error)
           ELSE ExecuteCatch("validator", GenerationLabel, TypeErrorOfUndefined)

\* generator() rejected with error: the outer catch
ExecuteGenerationFailed ==
    \E error \in Thrown :
        /\ fn = "execute" /\ pc = "generator"
        /\ IF HasProperties(error)
           THEN ExecuteCatch("generator", GenerationLabel, error)
           ELSE Reject(Finished(invocations))

\* ------------------------------------------------------------------------
\* SelfHealingCortex.executeJSON
\* ------------------------------------------------------------------------

\* the call of executeJSON; createCompletion gets currentPrompt = userPrompt
executeJSON == \E up \in Prompts : Enter("executeJSON", up, "completion", up)

\* the catch clause of executeJSON, then the loop test
JsonCatch(op, error, response) ==
    IF HasProperties(error)
    THEN LET text == ErrorText(error)
             prompt == IF RepairRemains(attempts)
                       THEN createRepairPrompt(userPrompt, text)
                       ELSE currentPrompt
         IN  /\ Loop(text, Append(repairLog, LogEntry(attempts, NoLabel, text)),
                     "completion", prompt, FailedAfter(attempts, text),
                     AfterPass(invocations, attempts, op))
             /\ currentPrompt' = prompt
             /\ failures' = Failed(op, text)
             /\ lastResponse' = response
             /\ UNCHANGED <<fn, currentCode, userPrompt, repairOut>>
    ELSE Reject(AfterPass(invocations, attempts, op))

\* the completion resolved, its JSON parsed and parseAndValidate returned v
JsonValidated ==
    \E response \in Responses, v \in Vals :
        /\ fn = "executeJSON" /\ pc = "completion"
        /\ JsonParses(extractJSON(response))
        /\ ReturnSuccess(v, AfterPass(invocations, attempts, "validator"))
        /\ produced' = [attempt |-> attempts, value |-> v, accepted |-> v]
        /\ lastResponse' = response
        /\ UNCHANGED currentCode

\* the completion resolved and JSON.parse threw
JsonSyntaxFailed ==
    \E response \in Responses :
        /\ fn = "executeJSON" /\ pc = "completion"
        /\ ~JsonParses(extractJSON(response))
        /\ JsonCatch("parse", JsonSyntaxError, response)

\* the completion resolved, its JSON parsed and parseAndValidate threw
JsonValidationFailed ==
    \E response \in Responses, error \in Thrown :
        /\ fn = "executeJSON" /\ pc = "completion"
        /\ JsonParses(extractJSON(response))
        /\ JsonCatch("validator", error, response)

\* createCompletion rejected
JsonCompletionFailed ==
    \E error \in Thrown :
        /\ fn = "executeJSON" /\ pc = "completion"
        /\ JsonCatch("completion", error, << >>)

\* ------------------------------------------------------------------------
\* SelfHealingCortex.executeWithBuildCheck and repairCode
\* ------------------------------------------------------------------------

executeWithBuildCheck == Enter("executeWithBuildCheck", << >>, "generator", << >>)

\* the catch clause of executeWithBuildCheck, then the loop test
BuildCatch(op, error) ==
    IF HasProperties(error)
    THEN LET text == ErrorText(error)
         IN  /\ Loop(text, Append(repairLog, LogEntry(attempts, NoLabel, text)),
                     "generator", << >>, PlainError(attempts, text),
                     Finished(invocations))
             /\ failures' = Failed(op, text)
             /\ UNCHANGED <<fn, currentPrompt, currentCode, userPrompt,
                            lastResponse, repairOut>>
    ELSE Reject(Finished(invocations))

\* BuildGenerated that checks the generated code but keeps the old currentCode
MutBuildGenerated ==
    \E code \in Vals :
        /\ fn = "executeWithBuildCheck" /\ pc = "generator"
        /\ callArg' = code
        /\ pc' = "buildChecker"
        /\ invocations' = Invoked(Finished(invocations), attempts, "buildChecker")
        /\ produced' = [attempt |-> attempts, value |-> code, accepted |-> Unaccepted]
        /\ UNCHANGED <<fn, attempts, lastError, repairLog, currentPrompt, currentCode,
                       userPrompt, result, failures, lastResponse, repairOut>>
        /\ UNCHANGED <<extractVars, spawnVars, toolVars>>

\* currentCode = await generator(); then buildChecker(currentCode) is called
BuildGenerated ==
    \E code \in Vals :
        /\ fn = "executeWithBuildCheck" /\ pc = "generator"
        /\ currentCode' = code
        /\ callArg' = code
        /\ pc' = "buildChecker"
        /\ invocations' = Invoked(Finished(invocations), attempts, "buildChecker")
        /\ produced' = [attempt |-> attempts, value |-> code, accepted |-> Unaccepted]
        /\ UNCHANGED <<fn, attempts, lastError, repairLog, currentPrompt, userPrompt,
                       result, failures, lastResponse, repairOut>>
        /\ UNCHANGED <<extractVars, spawnVars, toolVars>>

BuildGenerationFailed ==
    \E error \in Thrown :
        /\ fn = "executeWithBuildCheck" /\ pc = "generator"
        /\ BuildCatch("generator", error)

\* buildChecker resolved with success
BuildPassed ==
    /\ fn = "executeWithBuildCheck" /\ pc = "buildChecker"
    /\ ReturnSuccess(currentCode, Finished(invocations))
    /\ produced' = [produced EXCEPT !.accepted = callArg]
    /\ UNCHANGED <<currentCode, lastResponse>>

\* buildChecker resolved without success: the failure is logged, and the
\* repair is requested when attempts remain
BuildFailed ==
    \E buildResult \in BuildResults :
        /\ fn = "executeWithBuildCheck" /\ pc = "buildChecker"
        /\ ~buildResult.success
        /\ LET text == BuildErrorText(buildResult)
               log == Append(repairLog, LogEntry(attempts, BuildLabel, text))
           IN  /\ failures' = Failed("buildResult", text)
               /\ IF RepairRemains(attempts)
                  THEN /\ pc' = "repair"
                       /\ callArg' = RepairCodePrompt(currentCode, text)
                       /\ lastError' = text
                       /\ repairLog' = log
                       /\ invocations' =
                              Invoked(Finished(invocations), attempts, "repair")
                       /\ UNCHANGED <<attempts, result, produced>>
                       /\ UNCHANGED <<extractVars, spawnVars, toolVars>>
                  ELSE Loop(text, log, "generator", << >>, PlainError(attempts, text),
                            Finished(invocations))
        /\ UNCHANGED <<fn, currentPrompt, currentCode, userPrompt, lastResponse,
                       repairOut>>

BuildCheckFailed ==
    \E error \in Thrown :
        /\ fn = "executeWithBuildCheck" /\ pc = "buildChecker"
        /\ BuildCatch("buildChecker", error)

\* currentCode = await this.repairCode(currentCode, lastError); then the loop test
BuildRepaired ==
    \E response \in RepairResponses :
        /\ fn = "executeWithBuildCheck" /\ pc = "repair"
        /\ currentCode' = CleanRepairResponse(response)
        /\ repairOut' = [attempt |-> attempts, code |-> CleanRepairResponse(response)]
        /\ Loop(lastError, repairLog, "generator", << >>,
                PlainError(attempts, lastError), Finished(invocations))
        /\ UNCHANGED <<fn, currentPrompt, userPrompt, failures, lastResponse>>

\* the completion inside repairCode rejected
BuildRepairFailed ==
    \E error \in Thrown :
        /\ fn = "executeWithBuildCheck" /\ pc = "repair"
        /\ BuildCatch("repair", error)

Next ==
    \/ execute
    \/ ExecuteValidated
    \/ ExecuteValidationFailed
    \/ ExecuteGenerationFailed
    \/ executeJSON
    \/ JsonValidated
    \/ JsonSyntaxFailed
    \/ JsonValidationFailed
    \/ JsonCompletionFailed
    \/ executeWithBuildCheck
    \/ BuildGenerated
    \/ BuildGenerationFailed
    \/ BuildPassed
    \/ BuildFailed
    \/ BuildCheckFailed
    \/ BuildRepaired
    \/ BuildRepairFailed

Spec == Init /\ [][Next]_vars

\* the steps taken when the awaited external call returns or throws
Resolved ==
    \/ ExecuteValidated
    \/ ExecuteValidationFailed
    \/ ExecuteGenerationFailed
    \/ JsonValidated
    \/ JsonSyntaxFailed
    \/ JsonValidationFailed
    \/ JsonCompletionFailed
    \/ BuildGenerated
    \/ BuildGenerationFailed
    \/ BuildPassed
    \/ BuildFailed
    \/ BuildCheckFailed
    \/ BuildRepaired
    \/ BuildRepairFailed

\* every external call that is awaited returns or throws
SpecLive == Init /\ [][Next]_vars /\ WF_pc(Resolved)

\* ------------------------------------------------------------------------
\* SelfHealingCortex.execute called twice on one instance, the calls free to
\* overlap: each call has its locals, the field this.repairLog is shared
\* ------------------------------------------------------------------------

\* what the collaborators of the two calls throw
SharedThrown ==
    {[kind |-> "Error", message |-> <<AllMsgs[1]>>],
     [kind |-> "undefined", message |-> << >>]}

\* what the generators of the two calls resolve to
SharedVals == {<<AllVals[1]>>}

SharedFrame == UNCHANGED <<execVars, extractVars, spawnVars, viewVars, registryVars,
                           writeVars, stackVars, mergeVars, previewVars>>

\* this.repairLog = []; attempts++; the generator is called
SharedExecute(c) ==
    /\ shPc[c] = "idle"
    /\ LoopContinues(0)
    /\ shRepairLog' = c
    /\ shArrays' = [shArrays EXCEPT ![c] = << >>]
    /\ shAttempts' = [shAttempts EXCEPT ![c] = 1]
    /\ shPc' = [shPc EXCEPT ![c] = "generator"]
    /\ UNCHANGED <<shLastError, shResult>>
    /\ SharedFrame

\* generator() resolved with v and validator(v) returned
SharedValidated(c) ==
    \E v \in SharedVals :
        /\ shPc[c] = "generator"
        /\ shPc' = [shPc EXCEPT ![c] = "returned"]
        /\ shResult' = [shResult EXCEPT ![c] =
                            [success |-> TRUE, data |-> v, error |-> << >>,
                             attempts |-> shAttempts[c], repairLog |-> shRepairLog]]
        /\ UNCHANGED <<shAttempts, shLastError, shRepairLog, shArrays>>
        /\ SharedFrame

\* either catch clause: this.repairLog.push(...), then the loop test
SharedCatch(c, label, error) ==
    LET text == ErrorText(error)
        entry == [call |-> c, text |-> LogEntry(shAttempts[c], label, text)]
    IN  /\ shLastError' = [shLastError EXCEPT ![c] = text]
        /\ shArrays' = [shArrays EXCEPT ![shRepairLog] = Append(@, entry)]
        /\ IF LoopContinues(shAttempts[c])
           THEN /\ shAttempts' = [shAttempts EXCEPT ![c] = @ + 1]
                /\ UNCHANGED <<shPc, shResult>>
           ELSE /\ shPc' = [shPc EXCEPT ![c] = "returned"]
                /\ shResult' = [shResult EXCEPT ![c] =
                                    [success |-> FALSE, data |-> << >>,
                                     error |-> PlainError(shAttempts[c], text),
                                     attempts |-> shAttempts[c],
                                     repairLog |-> shRepairLog]]
                /\ UNCHANGED shAttempts
        /\ UNCHANGED shRepairLog
        /\ SharedFrame

\* generator() resolved and validator threw
SharedValidationFailed(c) ==
    \E error \in SharedThrown :
        /\ shPc[c] = "generator"
        /\ IF HasProperties(error)
           THEN SharedCatch(c, ValidationLabel, error)
           ELSE SharedCatch(c, GenerationLabel, TypeErrorOfUndefined)

\* generator() rejected; a rejection with undefined makes the catch clause throw
SharedGenerationFailed(c) ==
    \E error \in SharedThrown :
        /\ shPc[c] = "generator"
        /\ IF HasProperties(error)
           THEN SharedCatch(c, GenerationLabel, error)
           ELSE /\ shPc' = [shPc EXCEPT ![c] = "rejected"]
                /\ UNCHANGED <<shAttempts, shLastError, shResult, shRepairLog, shArrays>>
                /\ SharedFrame

NextShared ==
    \/ \E c \in Calls : SharedExecute(c)
    \/ \E c \in Calls : SharedValidated(c)
    \/ \E c \in Calls : SharedValidationFailed(c)
    \/ \E c \in Calls : SharedGenerationFailed(c)

SpecShared == Init /\ [][NextShared]_vars

\* ------------------------------------------------------------------------
\* preview: FileWatcher polling the .helix files, each change starting the
\* async callback that imports ./generate and awaits generateStack(file)
\* ------------------------------------------------------------------------

\* how often a watched file is saved while the preview runs
MaxSaves == 1

PreviewFrame == UNCHANGED <<execVars, extractVars, spawnVars, viewVars, registryVars,
                            writeVars, stackVars, mergeVars, sharedVars>>

\* watch(): lastMtime is the mtime of the file, or 0 when statSync threw
InitPreview ==
    /\ ExecInit
    /\ ExtractIdle
    /\ SpawnIdle
    /\ ViewIdle
    /\ RegistryInit
    /\ WriteIdle
    /\ StackIdle
    /\ MergeIdle
    /\ SharedIdle
    /\ pvMtime = [f \in 1..Len(HelixFiles) |-> 1]
    /\ pvLastMtime \in [1..Len(HelixFiles) -> {0, 1}]
    /\ pvRuns = << >>
    /\ pvExited = FALSE

\* the user saves a watched file
FileSaved ==
    \E f \in 1..Len(HelixFiles) :
        /\ ~pvExited
        /\ pvMtime[f] <= MaxSaves
        /\ pvMtime' = [pvMtime EXCEPT ![f] = @ + 1]
        /\ UNCHANGED <<pvLastMtime, pvRuns, pvExited>>
        /\ PreviewFrame

\* stat.mtimeMs > lastMtime, for a file statSync can read
Changed(f, readable) == f \in readable /\ pvMtime[f] > pvLastMtime[f]

RECURSIVE Poll(_, _, _)
\* the for loop of one tick from file f on: a changed file has its mtime
\* stored and its callback called, which runs up to its first await
Poll(f, readable, state) ==
    IF f > Len(HelixFiles)
        THEN state
        ELSE Poll(f + 1, readable,
                  IF Changed(f, readable)
                      THEN [last |-> [state.last EXCEPT ![f] = pvMtime[f]],
                            runs |-> Append(state.runs,
                                            [file |-> HelixFiles[f], pc |-> "import"])]
                      ELSE state)

\* the setInterval callback; statSync throws for the files not in readable
PollTick ==
    \E readable \in SUBSET (1..Len(HelixFiles)) :
        /\ ~pvExited
        /\ LET after == Poll(1, readable, [last |-> pvLastMtime, runs |-> pvRuns])
           IN  /\ pvLastMtime' = after.last
               /\ pvRuns' = after.runs
        /\ UNCHANGED <<pvMtime, pvExited>>
        /\ PreviewFrame

\* import("./generate") resolved: generateStack(file) is called and awaited
RunImported(r) ==
    /\ ~pvExited
    /\ pvRuns[r].pc = "import"
    /\ pvRuns' = [pvRuns EXCEPT ![r].pc = "generate"]
    /\ UNCHANGED <<pvMtime, pvLastMtime, pvExited>>
    /\ PreviewFrame

\* generateStack found no file at the path: process.exit(1)
RunExited(r) ==
    /\ ~pvExited
    /\ pvRuns[r].pc = "import"
    /\ pvExited' = TRUE
    /\ UNCHANGED <<pvMtime, pvLastMtime, pvRuns>>
    /\ PreviewFrame

\* generateStack resolved: "Regeneration complete"
RunFinished(r) ==
    /\ ~pvExited
    /\ pvRuns[r].pc = "generate"
    /\ pvRuns' = [pvRuns EXCEPT ![r].pc = "complete"]
    /\ UNCHANGED <<pvMtime, pvLastMtime, pvExited>>
    /\ PreviewFrame

\* the import or generateStack rejected: the catch clause of the callback
RunFailed(r) ==
    /\ ~pvExited
    /\ pvRuns[r].pc \in {"import", "generate"}
    /\ pvRuns' = [pvRuns EXCEPT ![r].pc = "failed"]
    /\ UNCHANGED <<pvMtime, pvLastMtime, pvExited>>
    /\ PreviewFrame

NextPreview ==
    \/ FileSaved
    \/ PollTick
    \/ \E r \in 1..Len(pvRuns) : RunImported(r)
    \/ \E r \in 1..Len(pvRuns) : RunExited(r)
    \/ \E r \in 1..Len(pvRuns) : RunFinished(r)
    \/ \E r \in 1..Len(pvRuns) : RunFailed(r)

SpecPreview == InitPreview /\ [][NextPreview]_vars

\* ------------------------------------------------------------------------
\* extractJSON on its own: the responses are a prose prefix without "{" or
\* "[", an optional code fence, one JSON object or array, and trailing text
\* ------------------------------------------------------------------------

\* characters a string literal of a generated value is made of
JStringChars == {"a", "{", "}", "[", "]"}

StringBodies == UNION {[1..n -> JStringChars] : n \in 0..MaxStrLen}

JsonStrings == {<<"\"">> \o body \o <<"\"">> : body \in StringBodies}

JsonScalars == JsonStrings \cup {<<"1">>}

JsonArrays(vs) ==
    {<<"[", "]">>}
        \cup {<<"[">> \o v \o <<"]">> : v \in vs}
        \cup {<<"[">> \o v \o <<",", "1", "]">> : v \in vs}

JsonObjects(vs) ==
    {<<"{", "}">>} \cup {<<"{", "\"", "a", "\"", ":">> \o v \o <<"}">> : v \in vs}

FlatStructures == JsonArrays(JsonScalars) \cup JsonObjects(JsonScalars)

\* the JSON objects and arrays the responses are built around
JsonStructures ==
    FlatStructures \cup JsonArrays(FlatStructures) \cup JsonObjects(FlatStructures)

Proses == {<< >>, <<"a", " ">>, <<"a", ":", "\n">>}

Trailings == {<< >>, <<" ", "a">>, <<"}">>, <<"\n", "]", "a">>}

\* [open, close] of the optional fence around the value
Fences ==
    { [open |-> << >>, close |-> << >>],
      [open |-> FenceJson \o <<"\n">>, close |-> <<"\n">> \o Fence],
      [open |-> Fence \o <<"\n">>, close |-> <<"\n">> \o Fence] }

InitExtract ==
    /\ ExecInit
    /\ SpawnIdle
    /\ ToolsIdle
    /\ exDone = FALSE
    /\ exOut = << >>
    /\ exValue \in JsonStructures
    /\ \E prose \in Proses, fence \in Fences, trailing \in Trailings :
           exText = prose \o fence.open \o exValue \o fence.close \o trailing

\* const jsonStr = this.extractJSON(response)
ExtractJSONCall ==
    /\ ~exDone
    /\ exOut' = extractJSON(exText)
    /\ exDone' = TRUE
    /\ UNCHANGED <<exText, exValue, execVars, spawnVars, toolVars>>

NextExtract == ExtractJSONCall

SpecExtract == InitExtract /\ [][NextExtract]_vars

\* ------------------------------------------------------------------------
\* spawnApp, phase 3: parse the blueprint, then write, push and generate the
\* database schema, asking fixPrismaSchema for a repaired schema on failure
\* ------------------------------------------------------------------------

MAX_RETRY_ATTEMPTS == 3

\* generatePrismaSchema(ast), one opaque text
GeneratedSchema == <<"schema(ast)">>

\* what fs and execa reject with: an error with stderr and message, or undefined
SpawnErrors ==
    {[kind |-> "Error", stderr |-> st, message |-> m] :
        st \in Msgs \cup {<< >>}, m \in Msgs}
        \cup {[kind |-> "undefined", stderr |-> << >>, message |-> << >>]}

\* error.stderr || error.message || String(error)
SpawnErrorText(error) ==
    IF error.stderr # << >> THEN error.stderr ELSE ErrorText(error)

\* the loop condition and the test in the catch clause
SpawnLoopContinues(a) == a < MAX_RETRY_ATTEMPTS

\* the user prompt of fixPrismaSchema
FixSchemaPrompt(schema, error) ==
    <<"Fix this Prisma schema that has an error:\n\nERROR:\n">> \o error
        \o <<"\n\nSCHEMA:\n">> \o schema \o <<"\n\nOutput the corrected schema:">>

\* the strands of the blueprints, by name
StrandLists ==
    { << >>, <<(<<"Task">>)>>, << <<"Task">>, <<"Note">> >>, << <<"Note">>, <<"Task">> >> }

\* the views of the blueprints: a list property naming a strand, naming a
\* strand without a method, naming no strand of the blueprint, absent, empty
AllViews ==
    << [name |-> "Tasks", hasList |-> TRUE, list |-> <<"Task", ".", "all">>],
       [name |-> "Notes", hasList |-> TRUE, list |-> <<"Note">>],
       [name |-> "Ghosts", hasList |-> TRUE, list |-> <<"Ghost", ".", "all">>],
       [name |-> "Plain", hasList |-> FALSE, list |-> << >>],
       [name |-> "Blank", hasList |-> TRUE, list |-> << >>] >>

\* what parseHelix returns
Blueprints == [strands : StrandLists, views : {<< >>, AllViews}]

\* the value undefined where a strand or a strand name is expected
NoStrand == << >>

\* s.split(".")[0]
FirstPiece(s) == IF IndexOf(s, ".") < 0 THEN s ELSE SubSeq(s, 1, IndexOf(s, "."))

MutFirstStrand(strands) == NoStrand

\* ast.strands[0], and with it ast.strands[0]?.name
FirstStrand(strands) == IF strands = << >> THEN NoStrand ELSE strands[1]

\* ast.strands.find((s) => s.name === strandName) || ast.strands[0]
FindStrand(strands, strandName) ==
    IF \E i \in 1..Len(strands) : strands[i] = strandName
    THEN strandName
    ELSE FirstStrand(strands)

\* spawnApp: view.properties["list"]?.split(".")[0] || ast.strands[0]?.name,
\* then the strand of that name or the first one
SpawnStrandFor(ast, view) ==
    LET piece == IF view.hasList THEN FirstPiece(view.list) ELSE NoStrand
        strandName == IF piece # << >> THEN piece ELSE FirstStrand(ast.strands)
    IN  FindStrand(ast.strands, strandName)

MutRetryRemains(a) == TRUE

\* the test in the catch clause of the database loop
RetryRemains(a) == a < MAX_RETRY_ATTEMPTS

MutSpawnParseFailedPc == "idle"

\* where a failed parseHelix leaves spawnApp: the error is thrown on to the
\* outer catch, which ends the process
SpawnParseFailedPc == "exited"

\* the outer catch of spawnApp: the message is printed and process.exit(1)
SpawnExit ==
    /\ spPc' = "exited"
    /\ spArg' = << >>
    /\ UNCHANGED <<spAttempts, spCurrentSchema, spDiskSchema, spApplied, spFixes,
                   spGenerated, spAst, spIdx, spRoutes, spPages, spDbBuilt>>

\* parseHelix threw: the error is thrown on to the outer catch
SpawnParseFailed ==
    /\ spPc = "idle"
    /\ gsPc = "idle"
    /\ spParses' = spParses + 1
    /\ spParseFailed' = TRUE
    /\ spPc' = SpawnParseFailedPc
    /\ spArg' = << >>
    /\ UNCHANGED <<spAttempts, spCurrentSchema, spDiskSchema, spApplied, spFixes,
                   spGenerated, spAst, spIdx, spRoutes, spPages, spDbBuilt>>
    /\ UNCHANGED <<spLastError, spFixFailedAt, spDbFailures, execVars, extractVars,
                   toolVars>>

\* parseHelix returned: the schema is generated and the loop is entered, up
\* to the first await (writing prisma/schema.prisma)
SpawnParsed ==
    \E ast \in Blueprints :
        /\ spPc = "idle"
        /\ gsPc = "idle"
        /\ SpawnLoopContinues(0)
        /\ spParses' = spParses + 1
        /\ spAst' = ast
        /\ spAttempts' = 1
        /\ spLastError' = << >>
        /\ spCurrentSchema' = GeneratedSchema
        /\ spPc' = "write"
        /\ UNCHANGED <<spDiskSchema, spArg, spApplied, spFixes, spFixFailedAt,
                       spGenerated, spIdx, spRoutes, spPages, spParseFailed, spDbBuilt,
                       spDbFailures, execVars, extractVars, toolVars>>

\* the schema file is written (and a stray prisma.config.ts removed); prisma
\* db push is started on it
SpawnWritten ==
    /\ spPc = "write"
    /\ spDiskSchema' = spCurrentSchema
    /\ spApplied' = Append(spApplied, spCurrentSchema)
    /\ spPc' = "push"
    /\ UNCHANGED <<spAttempts, spLastError, spCurrentSchema, spArg, spFixes,
                   spFixFailedAt, spGenerated, spAst, spIdx, spRoutes, spPages,
                   spParses, spParseFailed, spDbBuilt, spDbFailures, execVars,
                   extractVars, toolVars>>

\* prisma db push succeeded; prisma generate is started
SpawnPushed ==
    /\ spPc = "push"
    /\ spPc' = "generate"
    /\ UNCHANGED <<spAttempts, spLastError, spCurrentSchema, spDiskSchema, spArg,
                   spApplied, spFixes, spFixFailedAt, spGenerated, spAst, spIdx,
                   spRoutes, spPages, spParses, spParseFailed, spDbBuilt,
                   spDbFailures, execVars, extractVars, toolVars>>

\* prisma generate succeeded: break, the database is built and the loop over
\* the strands of phase 4 starts
SpawnClientGenerated ==
    /\ spPc = "generate"
    /\ spDbBuilt' = TRUE
    /\ spPc' = "routes"
    /\ spIdx' = 1
    /\ UNCHANGED <<spAttempts, spLastError, spCurrentSchema, spDiskSchema, spArg,
                   spApplied, spFixes, spFixFailedAt, spGenerated, spAst, spRoutes,
                   spPages, spParses, spParseFailed, spDbFailures, execVars,
                   extractVars, toolVars>>

\* the write, the push or the client generation rejected: the catch clause
SpawnStepFailed ==
    \E error \in SpawnErrors :
        /\ spPc \in {"write", "push", "generate"}
        /\ spDbFailures' = spDbFailures + 1
        /\ IF ~HasProperties(error)
           THEN SpawnExit /\ UNCHANGED spLastError
           ELSE /\ spLastError' = SpawnErrorText(error)
                /\ IF RetryRemains(spAttempts)
                   THEN /\ spPc' = "fix"
                        /\ spArg' = FixSchemaPrompt(spCurrentSchema, SpawnErrorText(error))
                        /\ UNCHANGED <<spAttempts, spCurrentSchema, spDiskSchema,
                                       spApplied, spFixes, spGenerated, spAst, spIdx,
                                       spRoutes, spPages, spDbBuilt>>
                   ELSE SpawnExit
        /\ UNCHANGED <<spFixFailedAt, spParses, spParseFailed, execVars, extractVars,
                       toolVars>>

\* SpawnFixed that drops the schema the repair call returned
MutSpawnFixed ==
    \E response \in Vals :
        /\ spPc = "fix"
        /\ spFixes' = Append(spFixes, [attempt |-> spAttempts, schema |-> spCurrentSchema,
                                       error |-> spLastError, out |-> response])
        /\ spArg' = << >>
        /\ IF SpawnLoopContinues(spAttempts)
           THEN spAttempts' = spAttempts + 1 /\ spPc' = "write" /\ spIdx' = spIdx
           ELSE spAttempts' = spAttempts /\ spPc' = "routes" /\ spIdx' = 1
        /\ UNCHANGED <<spLastError, spCurrentSchema, spDiskSchema, spApplied,
                       spFixFailedAt, spGenerated, spAst, spRoutes, spPages, spParses,
                       spParseFailed, spDbBuilt, spDbFailures, execVars, extractVars,
                       toolVars>>

\* currentSchema = await fixPrismaSchema(currentSchema, lastError); then the
\* loop test and the next write, or the end of the loop and phase 4
SpawnFixed ==
    \E response \in Vals :
        /\ spPc = "fix"
        /\ spCurrentSchema' = response
        /\ spFixes' = Append(spFixes, [attempt |-> spAttempts, schema |-> spCurrentSchema,
                                       error |-> spLastError, out |-> response])
        /\ spArg' = << >>
        /\ IF SpawnLoopContinues(spAttempts)
           THEN spAttempts' = spAttempts + 1 /\ spPc' = "write" /\ spIdx' = spIdx
           ELSE spAttempts' = spAttempts /\ spPc' = "routes" /\ spIdx' = 1
        /\ UNCHANGED <<spLastError, spDiskSchema, spApplied, spFixFailedAt, spGenerated,
                       spAst, spRoutes, spPages, spParses, spParseFailed, spDbBuilt,
                       spDbFailures, execVars, extractVars, toolVars>>

\* the completion inside fixPrismaSchema rejected: the await stands in the
\* catch clause, so the error leaves the loop for the outer catch
SpawnFixFailed ==
    \E error \in Thrown :
        /\ spPc = "fix"
        /\ spFixFailedAt' = spAttempts
        /\ SpawnExit
        /\ UNCHANGED <<spLastError, spParses, spParseFailed, spDbFailures, execVars,
                       extractVars, toolVars>>

\* what a step of phase 4 leaves alone
SpawnPhase4Frame ==
    UNCHANGED <<spAttempts, spLastError, spCurrentSchema, spDiskSchema, spArg,
                spApplied, spFixes, spFixFailedAt, spAst, spParses, spParseFailed,
                spDbBuilt, spDbFailures, execVars, extractVars, toolVars>>

\* phase 4: route.ts of the next strand is written
SpawnRouteWritten ==
    /\ spPc = "routes"
    /\ spIdx <= Len(spAst.strands)
    /\ spRoutes' = spRoutes \cup {spAst.strands[spIdx]}
    /\ spIdx' = spIdx + 1
    /\ UNCHANGED <<spPc, spPages, spGenerated>>
    /\ SpawnPhase4Frame

\* the loop over the strands is over, the loop over the views starts
SpawnRoutesDone ==
    /\ spPc = "routes"
    /\ spIdx > Len(spAst.strands)
    /\ spPc' = "pages"
    /\ spIdx' = 1
    /\ UNCHANGED <<spRoutes, spPages, spGenerated>>
    /\ SpawnPhase4Frame

\* page.tsx of the next view is written from the strand found for it
SpawnPageWritten ==
    /\ spPc = "pages"
    /\ spIdx <= Len(spAst.views)
    /\ SpawnStrandFor(spAst, spAst.views[spIdx]) # NoStrand
    /\ spPages' = MapSet(spPages, spIdx, SpawnStrandFor(spAst, spAst.views[spIdx]))
    /\ spIdx' = spIdx + 1
    /\ UNCHANGED <<spPc, spRoutes, spGenerated>>
    /\ SpawnPhase4Frame

\* if (strand) fails: no page is written for the view
SpawnPageSkipped ==
    /\ spPc = "pages"
    /\ spIdx <= Len(spAst.views)
    /\ SpawnStrandFor(spAst, spAst.views[spIdx]) = NoStrand
    /\ spIdx' = spIdx + 1
    /\ UNCHANGED <<spPc, spRoutes, spPages, spGenerated>>
    /\ SpawnPhase4Frame

\* the loop over the views is over, the home page is being written
SpawnPagesDone ==
    /\ spPc = "pages"
    /\ spIdx > Len(spAst.views)
    /\ spPc' = "home"
    /\ UNCHANGED <<spIdx, spRoutes, spPages, spGenerated>>
    /\ SpawnPhase4Frame

\* the home page is written: the application is generated and launched
SpawnHomeWritten ==
    /\ spPc = "home"
    /\ spGenerated' = TRUE
    /\ spPc' = "launched"
    /\ UNCHANGED <<spIdx, spRoutes, spPages>>
    /\ SpawnPhase4Frame

\* a write of phase 4 rejected: the outer catch
SpawnWriteFailed ==
    /\ \/ spPc = "routes" /\ spIdx <= Len(spAst.strands)
       \/ /\ spPc = "pages"
          /\ spIdx <= Len(spAst.views)
          /\ SpawnStrandFor(spAst, spAst.views[spIdx]) # NoStrand
       \/ spPc = "home"
    /\ SpawnExit
    /\ UNCHANGED <<spLastError, spFixFailedAt, spParses, spParseFailed, spDbFailures,
                   execVars, extractVars, toolVars>>

NextSpawn ==
    \/ SpawnParseFailed
    \/ SpawnParsed
    \/ SpawnWritten
    \/ SpawnPushed
    \/ SpawnClientGenerated
    \/ SpawnStepFailed
    \/ SpawnFixed
    \/ SpawnFixFailed
    \/ SpawnRouteWritten
    \/ SpawnRoutesDone
    \/ SpawnPageWritten
    \/ SpawnPageSkipped
    \/ SpawnPagesDone
    \/ SpawnHomeWritten
    \/ SpawnWriteFailed

SpecSpawn == Init /\ [][NextSpawn]_vars

\* ------------------------------------------------------------------------
\* detectViewType, the layout chosen for a strand on the spawned home page
\* ------------------------------------------------------------------------

MaxFields == 2

\* String.prototype.toLowerCase on the field names used here
toLowerCase(name) ==
    CASE name = "Image" -> "image"
      [] name = "STATUS" -> "status"
      [] name = "Title" -> "title"
      [] name = "Body" -> "body"
      [] OTHER -> name

ImageTokens == {"image", "photo", "avatar", "thumbnail", "cover", "picture", "img"}

StatusTokens == {"status", "stage", "phase", "state", "progress"}

TitleTokens == {"title", "name", "headline"}

ContentTokens == {"body", "content", "description", "message", "text", "note"}

\* fieldNames.some(n => tokens.includes(n))
SomeIn(fieldNames, tokens) ==
    \E i \in 1..Len(fieldNames) : fieldNames[i] \in tokens

MutDetectViewType(fields) ==
    LET fieldNames == [i \in 1..Len(fields) |-> toLowerCase(fields[i].name)]
    IN  IF SomeIn(fieldNames, StatusTokens) THEN "kanban"
        ELSE IF SomeIn(fieldNames, ImageTokens) THEN "gallery"
        ELSE IF SomeIn(fieldNames, TitleTokens) /\ SomeIn(fieldNames, ContentTokens)
             THEN "feed"
        ELSE "grid"

detectViewType(fields) ==
    LET fieldNames == [i \in 1..Len(fields) |-> toLowerCase(fields[i].name)]
        hasTitle == SomeIn(fieldNames, TitleTokens)
        hasContent == SomeIn(fieldNames, ContentTokens)
    IN  IF SomeIn(fieldNames, ImageTokens) THEN "gallery"
        ELSE IF SomeIn(fieldNames, StatusTokens) THEN "kanban"
        ELSE IF hasTitle /\ hasContent THEN "feed"
        ELSE "grid"

\* the field names and types the strands are declared with
FieldNames == {"Image", "photo", "STATUS", "stage", "Title", "name", "Body", "id"}

FieldTypes == {"String", "Int"}

StrandFields == [name : FieldNames, type : FieldTypes]

InitView ==
    /\ ExecInit
    /\ ExtractIdle
    /\ SpawnIdle
    /\ RegistryInit
    /\ WriteIdle
    /\ StackIdle
    /\ MoreIdle
    /\ dvFields \in UNION {[1..n -> StrandFields] : n \in 0..MaxFields}
    /\ dvOut = "none"
    /\ dvDone = FALSE

\* const viewType = detectViewType(s.fields)
DetectViewTypeCall ==
    /\ ~dvDone
    /\ dvOut' = detectViewType(dvFields)
    /\ dvDone' = TRUE
    /\ UNCHANGED <<dvFields, execVars, extractVars, spawnVars, registryVars, writeVars, stackVars, moreVars>>

NextView == DetectViewTypeCall

SpecView == InitView /\ [][NextView]_vars

\* ------------------------------------------------------------------------
\* PluginRegistry: scanForPlugins, registerExternalPlugin and loadGenerator
\* ------------------------------------------------------------------------

\* how many dependencies the scanned package.json lists
MaxDeps == 2

HelixGenPrefix == <<"helix-gen-">>

\* the dependency names of the scanned project
DepNames ==
    { <<"lodash">>, <<"helix-gen-", "flutter">>, <<"helix-gen-", "web">>,
      <<"helix-gen-", "vue">> }

\* Object.entries(allDeps): the keys of an object are distinct
ProjectDeps ==
    {deps \in UNION {[1..n -> DepNames] : n \in 0..MaxDeps} :
        \A i, j \in 1..Len(deps) : deps[i] = deps[j] => i = j}

\* what registerExternalPlugin finds on disk for a candidate: whether
\* node_modules/<name> exists, whether its package.json can be read, and the
\* helix.target it declares (<< >> when it declares none)
Observations ==
    { [installed |-> FALSE, readable |-> FALSE, target |-> << >>],
      [installed |-> TRUE, readable |-> FALSE, target |-> << >>],
      [installed |-> TRUE, readable |-> TRUE, target |-> << >>],
      [installed |-> TRUE, readable |-> TRUE, target |-> <<"flutter">>],
      [installed |-> TRUE, readable |-> TRUE, target |-> <<"svelte">>] }

\* BUILT_IN_GENERATORS.some(p => p.name === name)
isBuiltIn(name) ==
    \E i \in 1..Len(BUILT_IN_GENERATORS) : BUILT_IN_GENERATORS[i].name = name

\* name.startsWith("helix-gen-") && !this.isBuiltIn(name)
IsCandidate(name) == StartsWith(name, HelixGenPrefix) /\ ~isBuiltIn(name)

\* name.replace("helix-gen-", ""), the first occurrence
RemovePrefixToken(name) ==
    LET k == IndexOf(name, HelixGenPrefix[1])
    IN  IF k < 0 THEN name ELSE SubSeq(name, 1, k) \o SliceFrom(name, k + 1)

\* pluginPkg.helix?.target || name.replace("helix-gen-", "")
TargetOf(name, obs) ==
    IF obs.target # << >> THEN obs.target ELSE RemovePrefixToken(name)

\* path.join(projectPath, "node_modules", name)
ExternalModulePath(name) == <<"node_modules/">> \o name

\* the candidate was found and its package.json was read
Registers(obs) == obs.installed /\ obs.readable

MutRegisterExternalPlugin(plugins, name, obs) ==
    MapSet(plugins, TargetOf(name, obs),
           [name |-> name, target |-> TargetOf(name, obs),
            version |-> <<"1.0.0">>, modulePath |-> ExternalModulePath(name),
            isBuiltIn |-> FALSE])

\* registerExternalPlugin: this.plugins after the call
registerExternalPlugin(plugins, name, obs) ==
    IF ~obs.installed THEN plugins
    ELSE IF ~obs.readable THEN plugins
    ELSE MapSet(plugins, TargetOf(name, obs),
                [name |-> name, target |-> TargetOf(name, obs),
                 version |-> <<"1.0.0">>, modulePath |-> ExternalModulePath(name),
                 isBuiltIn |-> FALSE])

MutCandidateDone(i, n, registered) == IF registered THEN i + 1 ELSE n + 1

\* the for loop after registerExternalPlugin has settled for candidate i of
\* n: the call caught its own errors, the loop goes on with the next entry
CandidateDone(i, n, registered) == i + 1

\* scanForPlugins is called: without a package.json it returns, otherwise
\* fs.readJSON is awaited
ScanCall ==
    \E exists \in BOOLEAN :
        /\ rgScanPc = "idle"
        /\ rgScanPc' = IF exists THEN "readPkg" ELSE "done"
        /\ UNCHANGED <<rgPlugins, rgLoaded, rgDeps, rgIdx, rgSeen, rgLoad, rgImports>>
        /\ UNCHANGED <<execVars, extractVars, spawnVars, viewVars, writeVars, stackVars, moreVars>>

\* package.json was read: the loop over the dependencies starts
ScanPkgRead ==
    \E deps \in ProjectDeps :
        /\ rgScanPc = "readPkg"
        /\ rgDeps' = deps
        /\ rgIdx' = 1
        /\ rgScanPc' = "loop"
        /\ UNCHANGED <<rgPlugins, rgLoaded, rgSeen, rgLoad, rgImports>>
        /\ UNCHANGED <<execVars, extractVars, spawnVars, viewVars, writeVars, stackVars, moreVars>>

\* fs.readJSON rejected, or package.json holds no object: the catch clause
ScanPkgUnreadable ==
    /\ rgScanPc = "readPkg"
    /\ rgScanPc' = "done"
    /\ UNCHANGED <<rgPlugins, rgLoaded, rgDeps, rgIdx, rgSeen, rgLoad, rgImports>>
    /\ UNCHANGED <<execVars, extractVars, spawnVars, viewVars, writeVars, stackVars, moreVars>>

\* a dependency that is no helix-gen-* package, or carries a built-in name
ScanSkip ==
    /\ rgScanPc = "loop"
    /\ rgIdx <= Len(rgDeps)
    /\ ~IsCandidate(rgDeps[rgIdx])
    /\ rgIdx' = rgIdx + 1
    /\ UNCHANGED <<rgPlugins, rgLoaded, rgScanPc, rgDeps, rgSeen, rgLoad, rgImports>>
    /\ UNCHANGED <<execVars, extractVars, spawnVars, viewVars, writeVars, stackVars, moreVars>>

\* await this.registerExternalPlugin(name, String(version), projectPath)
ScanRegister ==
    \E obs \in Observations :
        /\ rgScanPc = "loop"
        /\ rgIdx <= Len(rgDeps)
        /\ IsCandidate(rgDeps[rgIdx])
        /\ rgPlugins' = registerExternalPlugin(rgPlugins, rgDeps[rgIdx], obs)
        /\ rgSeen' = Append(rgSeen, [name |-> rgDeps[rgIdx], obs |-> obs])
        /\ rgIdx' = CandidateDone(rgIdx, Len(rgDeps), Registers(obs))
        /\ UNCHANGED <<rgLoaded, rgScanPc, rgDeps, rgLoad, rgImports>>
        /\ UNCHANGED <<execVars, extractVars, spawnVars, viewVars, writeVars, stackVars, moreVars>>

\* the for loop is over: scanForPlugins returns
ScanReturn ==
    /\ rgScanPc = "loop"
    /\ rgIdx > Len(rgDeps)
    /\ rgScanPc' = "done"
    /\ UNCHANGED <<rgPlugins, rgLoaded, rgDeps, rgIdx, rgSeen, rgLoad, rgImports>>
    /\ UNCHANGED <<execVars, extractVars, spawnVars, viewVars, writeVars, stackVars, moreVars>>

\* the plugin a module exports, named after the module
PluginOf(modulePath) == <<"plugin of ">> \o modulePath

MutCacheAfterMiss(loaded, target) == MapSet(loaded, target, Null)

\* this.loadedPlugins after a call that found no entry for the target
CacheAfterMiss(loaded, target) == loaded

\* loadGenerator(target) up to its first await: the cached plugin, or null
\* without an entry, or the import of the entry's module
LoadCall(l) ==
    \E target \in LoadTargets :
        /\ rgLoad[l].pc = "idle"
        /\ IF target \in DOMAIN rgLoaded
           THEN /\ rgLoad' = [rgLoad EXCEPT ![l] =
                                 [pc |-> "returned", target |-> target,
                                  entry |-> NoEntry, ret |-> rgLoaded[target]]]
                /\ UNCHANGED <<rgLoaded, rgImports>>
           ELSE IF target \notin DOMAIN rgPlugins
           THEN /\ rgLoad' = [rgLoad EXCEPT ![l] =
                                 [pc |-> "returned", target |-> target,
                                  entry |-> NoEntry, ret |-> Null]]
                /\ rgLoaded' = CacheAfterMiss(rgLoaded, target)
                /\ UNCHANGED rgImports
           ELSE /\ rgLoad' = [rgLoad EXCEPT ![l] =
                                 [pc |-> "import", target |-> target,
                                  entry |-> rgPlugins[target], ret |-> NotReturned]]
                /\ rgImports' = [rgImports EXCEPT ![target] = @ + 1]
                /\ UNCHANGED rgLoaded
        /\ UNCHANGED <<rgPlugins, rgScanPc, rgDeps, rgIdx, rgSeen>>
        /\ UNCHANGED <<execVars, extractVars, spawnVars, viewVars, writeVars, stackVars, moreVars>>

\* the import resolved: a module with a plugin that has generate() is cached
\* and returned, any other module gives null
LoadImported(l) ==
    \E hasPlugin \in BOOLEAN :
        /\ rgLoad[l].pc = "import"
        /\ IF hasPlugin
           THEN /\ rgLoaded' = MapSet(rgLoaded, rgLoad[l].target,
                                      PluginOf(rgLoad[l].entry.modulePath))
                /\ rgLoad' = [rgLoad EXCEPT ![l].pc = "returned",
                                            ![l].ret = PluginOf(rgLoad[l].entry.modulePath)]
           ELSE /\ rgLoad' = [rgLoad EXCEPT ![l].pc = "returned", ![l].ret = Null]
                /\ UNCHANGED rgLoaded
        /\ UNCHANGED <<rgPlugins, rgScanPc, rgDeps, rgIdx, rgSeen, rgImports>>
        /\ UNCHANGED <<execVars, extractVars, spawnVars, viewVars, writeVars, stackVars, moreVars>>

\* the import rejected: the catch clause returns null
LoadImportFailed(l) ==
    /\ rgLoad[l].pc = "import"
    /\ rgLoad' = [rgLoad EXCEPT ![l].pc = "returned", ![l].ret = Null]
    /\ UNCHANGED <<rgPlugins, rgLoaded, rgScanPc, rgDeps, rgIdx, rgSeen, rgImports>>
    /\ UNCHANGED <<execVars, extractVars, spawnVars, viewVars, writeVars, stackVars, moreVars>>

NextRegistry ==
    \/ ScanCall
    \/ ScanPkgRead
    \/ ScanPkgUnreadable
    \/ ScanSkip
    \/ ScanRegister
    \/ ScanReturn
    \/ \E l \in Loaders : LoadCall(l)
    \/ \E l \in Loaders : LoadImported(l)
    \/ \E l \in Loaders : LoadImportFailed(l)

SpecRegistry == Init /\ [][NextRegistry]_vars

\* ------------------------------------------------------------------------
\* writeFileSystemMap: the files of a FileSystemMap are written one by one
\* ------------------------------------------------------------------------

\* how many files the map lists
MaxFiles == 2

\* the relative paths of the generated files
FilePaths == {"lib/main.dart", "pubspec.yaml"}

\* an optional boolean: the property is absent, false or true
OptionalFlags == {"absent", "false", "true"}

\* the truthiness of an optional boolean, as the operator ! sees it
IsTruthy(flag) == flag = "true"

\* the content of entry i of the map; what the directory held before
EntryContent(i) == <<"content ", Digits[i]>>
OldContent == <<"old content">>

\* fsMap.files: paths and overwrite flags, each entry with its own content
FileLists ==
    { [i \in 1..Len(f) |-> [path |-> f[i].path, content |-> EntryContent(i),
                            overwrite |-> f[i].overwrite]] :
        f \in UNION {[1..n -> [path : FilePaths, overwrite : OptionalFlags]] :
                        n \in 0..MaxFiles} }

InitWrite ==
    /\ ExecInit
    /\ ExtractIdle
    /\ SpawnIdle
    /\ ViewIdle
    /\ RegistryInit
    /\ StackIdle
    /\ MoreIdle
    /\ \E existing \in SUBSET FilePaths : wfDisk = [p \in existing |-> OldContent]
    /\ wfFiles \in FileLists
    /\ wfOptions \in OptionalFlags
    /\ wfPc = "idle"
    /\ wfIdx = 0
    /\ wfResults = NoResults

MutShouldSkip(exists, file, overwriteExisting) == FALSE

\* exists && !file.overwrite && !options.overwriteExisting
ShouldSkip(exists, file, overwriteExisting) ==
    exists /\ ~IsTruthy(file.overwrite) /\ ~IsTruthy(overwriteExisting)

\* the for loop after an entry: the next entry, or return results
WriteNext ==
    /\ wfIdx' = wfIdx + 1
    /\ wfPc' = IF wfIdx + 1 > Len(wfFiles) THEN "returned" ELSE "loop"
    /\ UNCHANGED <<wfFiles, wfOptions>>
    /\ UNCHANGED <<execVars, extractVars, spawnVars, viewVars, registryVars, stackVars, moreVars>>

\* writeFileSystemMap is called: results is initialised, the loop is entered
WriteCall ==
    /\ wfPc = "idle"
    /\ wfIdx = 0
    /\ WriteNext
    /\ UNCHANGED <<wfDisk, wfResults>>

\* the file exists and may not be overwritten: results.skipped++
WriteSkipped ==
    /\ wfPc = "loop"
    /\ ShouldSkip(wfFiles[wfIdx].path \in DOMAIN wfDisk, wfFiles[wfIdx], wfOptions)
    /\ wfResults' = [wfResults EXCEPT !.skipped = @ + 1]
    /\ WriteNext
    /\ UNCHANGED wfDisk

\* fs.writeFile(fullPath, file.content) resolved: results.written++
WriteWritten ==
    /\ wfPc = "loop"
    /\ ~ShouldSkip(wfFiles[wfIdx].path \in DOMAIN wfDisk, wfFiles[wfIdx], wfOptions)
    /\ wfDisk' = MapSet(wfDisk, wfFiles[wfIdx].path, wfFiles[wfIdx].content)
    /\ wfResults' = [wfResults EXCEPT !.written = @ + 1]
    /\ WriteNext

\* fs.ensureDir or fs.writeFile rejected: the message is pushed on
\* results.errors (the directory of an existing file exists, and
\* fs.pathExists does not reject, so a skipped entry cannot fail)
WriteRejected ==
    \E message \in Msgs :
        /\ wfPc = "loop"
        /\ ~ShouldSkip(wfFiles[wfIdx].path \in DOMAIN wfDisk, wfFiles[wfIdx], wfOptions)
        /\ wfResults' = [wfResults EXCEPT !.errors =
                            Append(@, <<wfFiles[wfIdx].path, ": ">> \o message)]
        /\ WriteNext
        /\ UNCHANGED wfDisk

NextWrite ==
    \/ WriteCall
    \/ WriteSkipped
    \/ WriteWritten
    \/ WriteRejected

SpecWrite == InitWrite /\ [][NextWrite]_vars

\* ------------------------------------------------------------------------
\* generateStack: parse the blueprint, write and push the schema, generate
\* the client, the API routes, the UI pages and the home page
\* ------------------------------------------------------------------------

\* the strand name used when the blueprint has no strand
ItemName == <<"Item">>

\* generateStack: (view.properties["list"] || "").split(".")[0]
\*                    || ast.strands[0]?.name || "Item",
\* then the strand of that name or the first one
GenStrandFor(ast, view) ==
    LET listProp == IF view.hasList /\ view.list # << >> THEN view.list ELSE << >>
        piece == FirstPiece(listProp)
        strandName == IF piece # << >> THEN piece
                      ELSE IF FirstStrand(ast.strands) # NoStrand
                           THEN FirstStrand(ast.strands)
                      ELSE ItemName
    IN  FindStrand(ast.strands, strandName)

\* where a failed parseHelix leaves generateStack: the error is thrown again
GenParseFailedPc == "rejected"

\* what a step of generateStack leaves alone
GenFrame ==
    UNCHANGED <<execVars, extractVars, spawnVars, viewVars, registryVars, writeVars,
                moreVars>>

\* generateStack is called: without the blueprint file or helix.config.json
\* the process exits, otherwise the blueprint is read
GenCall ==
    \E found \in BOOLEAN :
        /\ gsPc = "idle"
        /\ spPc = "idle"
        /\ gsPc' = IF found THEN "read" ELSE "exited"
        /\ UNCHANGED <<gsAst, gsIdx, gsSchemaWritten, gsPushed, gsRoutes, gsPages,
                       gsHome, gsParses, gsParseFailed>>
        /\ GenFrame

\* fs.readFile rejected: the error is thrown again
GenReadFailed ==
    /\ gsPc = "read"
    /\ gsPc' = "rejected"
    /\ UNCHANGED <<gsAst, gsIdx, gsSchemaWritten, gsPushed, gsRoutes, gsPages, gsHome,
                   gsParses, gsParseFailed>>
    /\ GenFrame

\* parseHelix threw: the error is thrown again
GenParseFailed ==
    /\ gsPc = "read"
    /\ gsParses' = gsParses + 1
    /\ gsParseFailed' = TRUE
    /\ gsPc' = GenParseFailedPc
    /\ UNCHANGED <<gsAst, gsIdx, gsSchemaWritten, gsPushed, gsRoutes, gsPages, gsHome>>
    /\ GenFrame

\* parseHelix returned: the schema is generated and its write is awaited
GenParsed ==
    \E ast \in Blueprints :
        /\ gsPc = "read"
        /\ gsParses' = gsParses + 1
        /\ gsAst' = ast
        /\ gsPc' = "schema"
        /\ UNCHANGED <<gsIdx, gsSchemaWritten, gsPushed, gsRoutes, gsPages, gsHome,
                       gsParseFailed>>
        /\ GenFrame

\* the schema file is written; prisma db push is started
GenSchemaWritten ==
    /\ gsPc = "schema"
    /\ gsSchemaWritten' = TRUE
    /\ gsPc' = "push"
    /\ UNCHANGED <<gsAst, gsIdx, gsPushed, gsRoutes, gsPages, gsHome, gsParses,
                   gsParseFailed>>
    /\ GenFrame

\* prisma db push succeeded; prisma generate is started
GenPushed ==
    /\ gsPc = "push"
    /\ gsPushed' = TRUE
    /\ gsPc' = "client"
    /\ UNCHANGED <<gsAst, gsIdx, gsSchemaWritten, gsRoutes, gsPages, gsHome, gsParses,
                   gsParseFailed>>
    /\ GenFrame

\* prisma generate succeeded; the loop over the strands starts
GenClientGenerated ==
    /\ gsPc = "client"
    /\ gsPc' = "routes"
    /\ gsIdx' = 1
    /\ UNCHANGED <<gsAst, gsSchemaWritten, gsPushed, gsRoutes, gsPages, gsHome,
                   gsParses, gsParseFailed>>
    /\ GenFrame

\* layer B: route.ts of the next strand is written
GenRouteWritten ==
    /\ gsPc = "routes"
    /\ gsIdx <= Len(gsAst.strands)
    /\ gsRoutes' = gsRoutes \cup {gsAst.strands[gsIdx]}
    /\ gsIdx' = gsIdx + 1
    /\ UNCHANGED <<gsPc, gsAst, gsSchemaWritten, gsPushed, gsPages, gsHome, gsParses,
                   gsParseFailed>>
    /\ GenFrame

\* the loop over the strands is over, the loop over the views starts
GenRoutesDone ==
    /\ gsPc = "routes"
    /\ gsIdx > Len(gsAst.strands)
    /\ gsPc' = "pages"
    /\ gsIdx' = 1
    /\ UNCHANGED <<gsAst, gsSchemaWritten, gsPushed, gsRoutes, gsPages, gsHome,
                   gsParses, gsParseFailed>>
    /\ GenFrame

\* layer C: page.tsx of the next view is written from the strand found for it
GenPageWritten ==
    /\ gsPc = "pages"
    /\ gsIdx <= Len(gsAst.views)
    /\ GenStrandFor(gsAst, gsAst.views[gsIdx]) # NoStrand
    /\ gsPages' = MapSet(gsPages, gsIdx, GenStrandFor(gsAst, gsAst.views[gsIdx]))
    /\ gsIdx' = gsIdx + 1
    /\ UNCHANGED <<gsPc, gsAst, gsSchemaWritten, gsPushed, gsRoutes, gsHome, gsParses,
                   gsParseFailed>>
    /\ GenFrame

\* if (!strand): a warning is printed and the loop continues
GenPageSkipped ==
    /\ gsPc = "pages"
    /\ gsIdx <= Len(gsAst.views)
    /\ GenStrandFor(gsAst, gsAst.views[gsIdx]) = NoStrand
    /\ gsIdx' = gsIdx + 1
    /\ UNCHANGED <<gsPc, gsAst, gsSchemaWritten, gsPushed, gsRoutes, gsPages, gsHome,
                   gsParses, gsParseFailed>>
    /\ GenFrame

\* the loop over the views is over, the home page is being written
GenPagesDone ==
    /\ gsPc = "pages"
    /\ gsIdx > Len(gsAst.views)
    /\ gsPc' = "home"
    /\ UNCHANGED <<gsAst, gsIdx, gsSchemaWritten, gsPushed, gsRoutes, gsPages, gsHome,
                   gsParses, gsParseFailed>>
    /\ GenFrame

\* the home page is written: generateStack returns
GenHomeWritten ==
    /\ gsPc = "home"
    /\ gsHome' = TRUE
    /\ gsPc' = "returned"
    /\ UNCHANGED <<gsAst, gsIdx, gsSchemaWritten, gsPushed, gsRoutes, gsPages, gsParses,
                   gsParseFailed>>
    /\ GenFrame

\* a write, the push or the client generation rejected: the catch clause of
\* the layer throws the error again
GenStepFailed ==
    /\ \/ gsPc \in {"schema", "push", "client", "home"}
       \/ gsPc = "routes" /\ gsIdx <= Len(gsAst.strands)
       \/ /\ gsPc = "pages"
          /\ gsIdx <= Len(gsAst.views)
          /\ GenStrandFor(gsAst, gsAst.views[gsIdx]) # NoStrand
    /\ gsPc' = "rejected"
    /\ UNCHANGED <<gsAst, gsIdx, gsSchemaWritten, gsPushed, gsRoutes, gsPages, gsHome,
                   gsParses, gsParseFailed>>
    /\ GenFrame

NextGenerate ==
    \/ GenCall
    \/ GenReadFailed
    \/ GenParseFailed
    \/ GenParsed
    \/ GenSchemaWritten
    \/ GenPushed
    \/ GenClientGenerated
    \/ GenRouteWritten
    \/ GenRoutesDone
    \/ GenPageWritten
    \/ GenPageSkipped
    \/ GenPagesDone
    \/ GenHomeWritten
    \/ GenStepFailed

\* the command line runs one command per process, spawn or generate: either
\* starts only while the other has not been started
NextStack ==
    \/ NextSpawn
    \/ NextGenerate

SpecStack == Init /\ [][NextStack]_vars

\* ------------------------------------------------------------------------
\* mergeFileSystemMaps (src/openrouter.ts)
\* ------------------------------------------------------------------------

\* the content of the i-th file of an overlay map
OverlayContent(i) == <<"overlay ", Digits[i]>>

\* base.files: the file lists writeFileSystemMap is called with
BaseFileLists == FileLists

\* overlay.files: paths and overwrite flags, each entry with its own content
OverlayFileLists ==
    { [i \in 1..Len(f) |-> [path |-> f[i].path, content |-> OverlayContent(i),
                            overwrite |-> f[i].overwrite]] :
        f \in UNION {[1..n -> [path : FilePaths, overwrite : OptionalFlags]] :
                        n \in 0..MaxFiles} }

\* base.metadata
BaseMetadata ==
    MapSet(MapSet(EmptyMap, "projectName", <<"base app">>), "target", <<"flutter">>)

\* overlay.metadata: with or without a database
OverlayMetadatas ==
    { MapSet(MapSet(EmptyMap, "projectName", <<"overlay app">>), "target", <<"web">>),
      MapSet(MapSet(MapSet(EmptyMap, "projectName", <<"overlay app">>),
                    "target", <<"web">>), "database", <<"sqlite">>) }

\* { ...a, ...b }
Spread(a, b) ==
    [k \in DOMAIN a \cup DOMAIN b |-> IF k \in DOMAIN b THEN b[k] ELSE a[k]]

\* the position of key in an insertion-ordered Map, 0 when it is absent
KeyIndex(entries, key) ==
    IF \E i \in 1..Len(entries) : entries[i].key = key
        THEN CHOOSE i \in 1..Len(entries) : entries[i].key = key
        ELSE 0

\* Map.prototype.set: a known key keeps its position and takes the new
\* value, a new key is appended
OrderedSet(entries, key, value) ==
    IF KeyIndex(entries, key) = 0
        THEN Append(entries, [key |-> key, value |-> value])
        ELSE [entries EXCEPT ![KeyIndex(entries, key)].value = value]

MutOverlayFile(file) == file

\* { ...file, overwrite: true }
OverlayFile(file) == [file EXCEPT !.overwrite = "true"]

RECURSIVE SetBaseFiles(_, _)
\* for (const file of base.files) fileMap.set(file.path, file)
SetBaseFiles(entries, files) ==
    IF files = << >>
        THEN entries
        ELSE SetBaseFiles(OrderedSet(entries, Head(files).path, Head(files)), Tail(files))

RECURSIVE SetOverlayFiles(_, _)
\* for (const file of overlay.files) fileMap.set(file.path, {...file, overwrite: true})
SetOverlayFiles(entries, files) ==
    IF files = << >>
        THEN entries
        ELSE SetOverlayFiles(OrderedSet(entries, Head(files).path, OverlayFile(Head(files))),
                             Tail(files))

\* Array.from(fileMap.values())
MapValues(entries) == [i \in 1..Len(entries) |-> entries[i].value]

\* the overlay is entered first and the base files replace it
MutMergeFileSystemMaps(base, overlay) ==
    [files |-> MapValues(SetBaseFiles(SetOverlayFiles(<< >>, overlay.files), base.files)),
     metadata |-> Spread(base.metadata, overlay.metadata)]

mergeFileSystemMaps(base, overlay) ==
    [files |-> MapValues(SetOverlayFiles(SetBaseFiles(<< >>, base.files), overlay.files)),
     metadata |-> Spread(base.metadata, overlay.metadata)]

InitMerge ==
    /\ ExecInit
    /\ ExtractIdle
    /\ SpawnIdle
    /\ ViewIdle
    /\ RegistryInit
    /\ WriteIdle
    /\ StackIdle
    /\ SharedIdle
    /\ PreviewIdle
    /\ mgBase \in [files : BaseFileLists, metadata : {BaseMetadata}]
    /\ mgOverlay \in [files : OverlayFileLists, metadata : OverlayMetadatas]
    /\ mgOut = NoMap
    /\ mgDone = FALSE

MergeCall ==
    /\ ~mgDone
    /\ mgOut' = mergeFileSystemMaps(mgBase, mgOverlay)
    /\ mgDone' = TRUE
    /\ UNCHANGED <<mgBase, mgOverlay, execVars, extractVars, spawnVars, viewVars,
                   registryVars, writeVars, stackVars, sharedVars, previewVars>>

NextMerge == MergeCall

SpecMerge == InitMerge /\ [][NextMerge]_vars

\* ------------------------------------------------------------------------
\* Properties
\* ------------------------------------------------------------------------

\* needle occurs in text as a contiguous piece
Contains(text, needle) ==
    \E i \in 1..(Len(text) - Len(needle) + 1) :
        SubSeq(text, i, i + Len(needle) - 1) = needle

\* how many of the first k characters of s are c
Count(s, c, k) == Cardinality({m \in 1..k : s[m] = c})

\* text[i..j] opens with a brace or bracket and closes with its partner at
\* the first position where as many have closed as have opened
BalancedAt(text, i, j) ==
    LET open == text[i]
        close == IF open = "{" THEN "}" ELSE "]"
        piece == SubSeq(text, i, j)
    IN  /\ open \in {"{", "["}
        /\ text[j] = close
        /\ Count(piece, open, Len(piece)) = Count(piece, close, Len(piece))
        /\ \A k \in 1..(Len(piece) - 1) : Count(piece, open, k) > Count(piece, close, k)

\* the text holds a balanced {...} or [...] structure
HasBalanced(text) ==
    \E i \in 1..Len(text) : \E j \in (i + 1)..Len(text) : BalancedAt(text, i, j)

\* the executor call has returned its result
Returned == pc = "returned"

\* the message of the latest failure of the call
LastFailureText == failures[Len(failures)].text

\* in this call, only the validator has failed
OnlyValidatorFailed == \A i \in 1..Len(failures) : failures[i].op = "validator"

\* a validator that fails exactly its first N calls and then succeeds behaves
\* as the validator did in this call
ScriptFits(N) ==
    IF result.success THEN Len(failures) = N ELSE Len(failures) <= N

\* C1: execute, with the generator always succeeding and the validator
\* failing exactly its first N calls: attempts = min(N+1, M+1), and success
\* iff N <= M, for M = MAX_REPAIR_ATTEMPTS.
C1_AttemptsAndSuccess ==
    (fn = "execute" /\ Returned /\ OnlyValidatorFailed) =>
        \A N \in 0..MaxFailN :
            ScriptFits(N) =>
                /\ result.attempts = Min(N + 1, MAX_REPAIR_ATTEMPTS + 1)
                /\ result.success <=> (N <= MAX_REPAIR_ATTEMPTS)

\* execute succeeded in its last attempt after MAX_REPAIR_ATTEMPTS validator failures
C1_Witness ==
    /\ fn = "execute" /\ Returned /\ OnlyValidatorFailed
    /\ Len(failures) = MAX_REPAIR_ATTEMPTS
    /\ result.success

\* C2: no call of execute, executeJSON or executeWithBuildCheck rejects:
\* whatever a collaborator throws is caught and reported in the result.
C2_NeverRejects == pc # "rejected"

\* C3: in every attempt after the first of execute and executeJSON, the
\* generation call is handed the error message of the preceding failed attempt.
C3_RetryReceivesPriorError ==
    (fn \in {"execute", "executeJSON"} /\ pc \in {"generator", "completion"}
        /\ attempts > 1 /\ failures # << >>)
        => Contains(callArg, LastFailureText)

\* C4: in executeWithBuildCheck, after the build check of attempt k failed and
\* the repair ran, the code handed to the build checker in attempt k+1 is the
\* output of that repair.
C4_RepairedCodeIsChecked ==
    (fn = "executeWithBuildCheck" /\ pc = "buildChecker"
        /\ repairOut.attempt = attempts - 1 /\ repairOut.attempt > 0)
        => callArg = repairOut.code

\* C5 as claimed: when all attempts of an executor call failed, the result has
\* success = false, attempts = 3 and error = the message of the last failure.
C5_ExhaustedReturnsLastError ==
    (Returned /\ ~result.success) =>
        /\ result.attempts = MAX_REPAIR_ATTEMPTS + 1
        /\ result.error = LastFailureText

\* C5 as amended: when a call returns after all attempts failed, the result has
\* success = false, attempts = 3 and, as error, the message of the last
\* failure - in executeJSON after the words "Failed after 3 attempts: ".
C5_ExhaustedError ==
    (Returned /\ ~result.success) =>
        /\ result.attempts = 3
        /\ result.error =
               IF fn = "executeJSON"
               THEN <<"Failed after ", "3", " attempts: ">> \o LastFailureText
               ELSE LastFailureText

\* an executor returned failure after three failures, the last message
\* differing from the first
C5_Witness ==
    /\ Returned /\ ~result.success
    /\ Len(failures) >= 3
    /\ failures[1].text # LastFailureText
    /\ result.error # << >>

\* the label the entry of failure f carries in executor f0
ExpectedLabel(f0, f) ==
    IF f0 = "execute"
    THEN IF f.op = "validator" /\ f.text # TypeErrorOfUndefined.message
         THEN <<"Validation failed - ">>
         ELSE <<"Generation failed - ">>
    ELSE IF f.op = "buildResult" THEN <<"Build failed - ">>
    ELSE << >>

\* C7 as claimed: every failure of attempt N puts on the repair log the entry
\* "Attempt N: " directly followed by the error message.
C7_EntryIsAttemptThenMessage ==
    /\ Len(repairLog) = Len(failures)
    /\ \A i \in 1..Len(repairLog) :
           repairLog[i] = <<"Attempt ", Digits[failures[i].attempt], ": ">>
                              \o failures[i].text

\* C7 as amended: every entry of the repair log comes from a failure of some
\* attempt N, starts with "Attempt N: " and ends with the error message; in
\* between execute writes "Validation failed - " or "Generation failed - " and
\* a failed build check "Build failed - ", while executeJSON and the catch
\* clause of executeWithBuildCheck write nothing.
C7_EntryFormat ==
    /\ Len(repairLog) = Len(failures)
    /\ \A i \in 1..Len(repairLog) :
           repairLog[i] = <<"Attempt ", Digits[failures[i].attempt], ": ">>
                              \o ExpectedLabel(fn, failures[i]) \o failures[i].text

\* execute has logged a validation failure of attempt 1 and a generation
\* failure of attempt 2
C7_Witness ==
    /\ fn = "execute"
    /\ Len(repairLog) >= 2
    /\ failures[1].op = "validator" /\ failures[1].attempt = 1
    /\ failures[2].op = "generator" /\ failures[2].attempt = 2

\* C8: the repair log of a returned call holds one entry per failed attempt,
\* in attempt order: attempts entries on failure, attempts - 1 on success.
C8_OneEntryPerFailedAttempt ==
    Returned =>
        /\ Len(result.repairLog) =
               IF result.success THEN result.attempts - 1 ELSE result.attempts
        /\ \A i \in 1..Len(result.repairLog) : result.repairLog[i][2] = Digits[i]

\* C9: an executeJSON attempt whose completion holds no balanced {...} or
\* [...] structure does not succeed.
C9_NoStructureNeverSucceeds ==
    (fn = "executeJSON" /\ Returned /\ result.success) => HasBalanced(lastResponse)

\* C10: for prose without "{" and "[", an optional fence, one JSON object or
\* array and trailing text, extractJSON returns exactly that JSON value.
C10_ExtractReturnsValue == exDone => exOut = exValue

\* C6 (spawnApp): a schema-repair completion that fails while attempts remain
\* is followed by another attempt, so the run has not ended after it.
C6_RepairFailureIsRetried ==
    ~(spPc = "exited" /\ spFixFailedAt > 0 /\ spFixFailedAt < MAX_RETRY_ATTEMPTS)

\* the lower-cased names of a field list, as a set
LowerNames(fields) == {toLowerCase(fields[i].name) : i \in 1..Len(fields)}

\* the layout the priority order gives a set of names
ViewOfNames(names) ==
    IF names \cap ImageTokens # {} THEN "gallery"
    ELSE IF names \cap StatusTokens # {} THEN "kanban"
    ELSE IF \E t \in names \cap TitleTokens : \E b \in names \cap ContentTokens : b # t
         THEN "feed"
    ELSE "grid"

C12_BuiltInsStay ==
    \A i \in 1..Len(BUILT_IN_GENERATORS) :
        /\ BUILT_IN_GENERATORS[i].target \in DOMAIN rgPlugins
        /\ rgPlugins[BUILT_IN_GENERATORS[i].target] = BUILT_IN_GENERATORS[i]

\* the candidate registerExternalPlugin has just dealt with, in the step that
\* appended it to the history
JustSeen == rgSeen'[Len(rgSeen')]

\* C13 (as stated): a candidate that is missing from node_modules, or whose
\* package.json declares no helix.target, leaves the entries unchanged.
C13_NoTargetNotRegistered ==
    [][Len(rgSeen') = Len(rgSeen) + 1 =>
          ((~JustSeen.obs.installed \/ JustSeen.obs.target = << >>) =>
               rgPlugins' = rgPlugins)]_vars

\* C13 (amended): a candidate that is missing from node_modules, or whose
\* package.json cannot be read, leaves the entries unchanged; a candidate
\* whose package.json is read and declares no helix.target is registered
\* under its name without the first "helix-gen-".
C13_SkippedOrNamedAfterPackage ==
    [][Len(rgSeen') = Len(rgSeen) + 1 =>
          /\ (~JustSeen.obs.installed \/ ~JustSeen.obs.readable) =>
                 rgPlugins' = rgPlugins
          /\ (JustSeen.obs.installed /\ JustSeen.obs.readable
                  /\ JustSeen.obs.target = << >>) =>
                 /\ RemovePrefixToken(JustSeen.name) \in DOMAIN rgPlugins'
                 /\ rgPlugins'[RemovePrefixToken(JustSeen.name)].name = JustSeen.name
                 /\ ~rgPlugins'[RemovePrefixToken(JustSeen.name)].isBuiltIn]_vars

C13_Witness ==
    /\ Len(rgSeen) = 2
    /\ ~rgSeen[1].obs.installed
    /\ rgSeen[2].obs.readable
    /\ rgSeen[2].obs.target = << >>
    /\ rgSeen[2].name = <<"helix-gen-", "vue">>
    /\ <<"vue">> \in DOMAIN rgPlugins

\* candidate k of the history was registered and no later one took its target
LastForTarget(k) ==
    /\ Registers(rgSeen[k].obs)
    /\ \A j \in (k + 1)..Len(rgSeen) :
           Registers(rgSeen[j].obs) =>
               TargetOf(rgSeen[j].name, rgSeen[j].obs)
                   # TargetOf(rgSeen[k].name, rgSeen[k].obs)

\* C14: a scan that has read package.json ends having examined every
\* helix-gen candidate of the list, in order, whatever it found for the
\* earlier ones; and every candidate whose package.json was read is
\* registered under its target.
C14_ScanExaminesAll ==
    /\ rgScanPc = "done" =>
           [k \in 1..Len(rgSeen) |-> rgSeen[k].name] = SelectSeq(rgDeps, IsCandidate)
    /\ \A k \in 1..Len(rgSeen) :
           LastForTarget(k) =>
               /\ TargetOf(rgSeen[k].name, rgSeen[k].obs) \in DOMAIN rgPlugins
               /\ rgPlugins[TargetOf(rgSeen[k].name, rgSeen[k].obs)].name = rgSeen[k].name

C14_Witness ==
    /\ rgScanPc = "done"
    /\ Len(rgSeen) = 2
    /\ ~Registers(rgSeen[1].obs)
    /\ Registers(rgSeen[2].obs)
    /\ rgPlugins[TargetOf(rgSeen[2].name, rgSeen[2].obs)].name = rgSeen[2].name

\* C15: for each target, import() is called at most once over all
\* loadGenerator calls.
C15_ImportsOnce == \A t \in LoadTargets : rgImports[t] <= 1

\* C16: a loadGenerator call for a target without an entry returns null in
\* the same step and leaves the entries and the plugin cache as they were.
C16_UnknownTargetIsNull ==
    [][\A l \in Loaders :
           (rgLoad[l].pc = "idle" /\ rgLoad'[l].pc # "idle"
                /\ rgLoad'[l].target \notin DOMAIN rgPlugins) =>
               /\ rgLoad'[l].pc = "returned"
               /\ rgLoad'[l].ret = Null
               /\ rgPlugins' = rgPlugins
               /\ rgLoaded' = rgLoaded]_vars

C16_Witness ==
    \E l \in Loaders :
        /\ rgLoad[l].pc = "returned"
        /\ rgLoad[l].target \notin DOMAIN rgPlugins
        /\ rgLoad[l].ret = Null
        /\ rgLoad[l].target \notin DOMAIN rgLoaded

\* C17: an entry of the map changes the content of a path that exists (from
\* before the call or from an earlier entry) only when the entry has
\* overwrite = true or the call sets overwriteExisting; an entry for an
\* existing path with neither flag is counted as skipped.
C17_ExistingKeptUnlessFlagged ==
    [][(wfPc = "loop" /\ wfIdx' = wfIdx + 1) =>
          /\ \A p \in DOMAIN wfDisk :
                 /\ p \in DOMAIN wfDisk'
                 /\ wfDisk'[p] # wfDisk[p] =>
                        /\ p = wfFiles[wfIdx].path
                        /\ IsTruthy(wfFiles[wfIdx].overwrite) \/ IsTruthy(wfOptions)
          /\ (/\ wfFiles[wfIdx].path \in DOMAIN wfDisk
              /\ ~IsTruthy(wfFiles[wfIdx].overwrite)
              /\ ~IsTruthy(wfOptions)) =>
                 wfResults'.skipped = wfResults.skipped + 1]_vars

C17_Witness ==
    /\ wfPc = "returned"
    /\ Len(wfFiles) = 2
    /\ wfFiles[1].path = wfFiles[2].path
    /\ wfFiles[2].overwrite = "false"
    /\ wfResults.written = 1
    /\ wfResults.skipped = 1
    /\ wfDisk[wfFiles[1].path] = wfFiles[1].content

\* the list property of the view names no strand of the blueprint, or the
\* view has no list property
Unresolved(ast, view) ==
    \/ ~view.hasList
    \/ \A i \in 1..Len(ast.strands) : ast.strands[i] # FirstPiece(view.list)

\* the pages written so far use the first strand for every unresolved view
PagesUseFirstStrand(ast, pages) ==
    \A i \in DOMAIN pages :
        Unresolved(ast, ast.views[i]) => pages[i] = ast.strands[1]

\* once the loop over the views has ended, every view has its page unless
\* the blueprint has no strands
PagesComplete(ast, pages) ==
    DOMAIN pages = IF ast.strands = << >> THEN {} ELSE 1..Len(ast.views)

\* C18: in spawnApp and generateStack the page of a view whose list property
\* names no strand of the blueprint, or that has no list property, is
\* generated from the first strand, and the loop over the views goes on; a
\* view is left without a page only when the blueprint has no strands.
C18_UnresolvedViewUsesFirstStrand ==
    /\ PagesUseFirstStrand(spAst, spPages)
    /\ PagesUseFirstStrand(gsAst, gsPages)
    /\ spPc \in {"home", "launched"} => PagesComplete(spAst, spPages)
    /\ gsPc \in {"home", "returned"} => PagesComplete(gsAst, gsPages)

C18_Witness ==
    /\ spPc = "launched"
    /\ spAst.views = AllViews
    /\ spAst.strands = << <<"Note">>, <<"Task">> >>
    /\ Unresolved(spAst, spAst.views[3])
    /\ spPages[3] = <<"Note">>
    /\ spPages[4] = <<"Note">>

\* C19: when parseHelix fails, spawnApp and generateStack end at once:
\* parseHelix was called once, no repair completion was requested, no schema
\* was written or pushed, and no API route, UI page or home page was written.
C19_ParseFailureIsFatal ==
    /\ spParseFailed =>
           /\ spPc = "exited"
           /\ spParses = 1
           /\ spAttempts = 0
           /\ spFixes = << >>
           /\ spArg = << >>
           /\ spDiskSchema = << >>
           /\ spApplied = << >>
           /\ spRoutes = {}
           /\ DOMAIN spPages = {}
           /\ ~spGenerated
    /\ gsParseFailed =>
           /\ gsPc = "rejected"
           /\ gsParses = 1
           /\ ~gsSchemaWritten
           /\ ~gsPushed
           /\ gsRoutes = {}
           /\ DOMAIN gsPages = {}
           /\ ~gsHome

C19_Witness == spParseFailed /\ spPc = "exited" /\ spParses = 1

\* C20: in spawnApp a route, a page or the home page is written only after a
\* schema push and a client generation have both succeeded; after
\* MAX_RETRY_ATTEMPTS failed database attempts the run has ended with none
\* of them written.
C20_GeneratedOnlyAfterBuild ==
    /\ (\/ spPc \in {"routes", "pages", "home", "launched"}
        \/ spRoutes # {}
        \/ DOMAIN spPages # {}
        \/ spGenerated) => spDbBuilt
    /\ spDbFailures = MAX_RETRY_ATTEMPTS =>
           /\ spPc = "exited"
           /\ ~spDbBuilt
           /\ spRoutes = {}
           /\ DOMAIN spPages = {}
           /\ ~spGenerated

C20_Witness ==
    /\ spDbFailures = MAX_RETRY_ATTEMPTS
    /\ spAttempts = MAX_RETRY_ATTEMPTS
    /\ spPc = "exited"
    /\ spAst.strands # << >>

\* the paths of a file list
PathsOf(files) == {files[i].path : i \in 1..Len(files)}

\* the last file of a list with the given path: the one a Map keeps
LastWithPath(files, path) ==
    files[CHOOSE i \in 1..Len(files) :
            /\ files[i].path = path
            /\ \A j \in (i + 1)..Len(files) : files[j].path # path]

\* C21: mergeFileSystemMaps(base, overlay) returns files whose paths are
\* exactly the union of the paths of both inputs, each path once; a path of
\* the overlay carries the overlay's content, a path of the base only
\* carries the base's content.
C21_MergeIsUnionOverlayWins ==
    mgDone =>
        /\ PathsOf(mgOut.files) = PathsOf(mgBase.files) \cup PathsOf(mgOverlay.files)
        /\ \A i, j \in 1..Len(mgOut.files) :
                mgOut.files[i].path = mgOut.files[j].path => i = j
        /\ \A i \in 1..Len(mgOut.files) :
                LET file == mgOut.files[i]
                IN  IF file.path \in PathsOf(mgOverlay.files)
                        THEN file.content = LastWithPath(mgOverlay.files, file.path).content
                        ELSE file.content = LastWithPath(mgBase.files, file.path).content

\* a merge where one path is in both maps and another in the base only
C21_Witness ==
    /\ mgDone
    /\ PathsOf(mgBase.files) \cap PathsOf(mgOverlay.files) # {}
    /\ PathsOf(mgBase.files) \ PathsOf(mgOverlay.files) # {}
    /\ Len(mgOut.files) = 2

\* the input file a file of the result was taken from
SourceFile(file) ==
    IF file.path \in PathsOf(mgOverlay.files)
        THEN LastWithPath(mgOverlay.files, file.path)
        ELSE LastWithPath(mgBase.files, file.path)

\* C29 as stated: every file of the result of mergeFileSystemMaps carries the
\* overwrite flag it had in the input map it was taken from.
C29_OverwriteFlagsKept ==
    mgDone =>
        \A i \in 1..Len(mgOut.files) :
            mgOut.files[i].overwrite = SourceFile(mgOut.files[i]).overwrite

\* C29 amended: a file taken from the base carries the overwrite flag it had
\* in the base; a file taken from the overlay is always marked overwrite = true.
C29_OnlyBaseFlagsKept ==
    mgDone =>
        \A i \in 1..Len(mgOut.files) :
            LET file == mgOut.files[i]
            IN  IF file.path \in PathsOf(mgOverlay.files)
                    THEN file.overwrite = "true"
                    ELSE file.overwrite = SourceFile(file).overwrite

\* a merge with an overlay file not marked overwritable and a base file kept
C29_Witness ==
    /\ mgDone
    /\ \E i \in 1..Len(mgOut.files) :
            /\ mgOut.files[i].path \in PathsOf(mgOverlay.files)
            /\ SourceFile(mgOut.files[i]).overwrite # "true"
    /\ \E i \in 1..Len(mgOut.files) :
            /\ mgOut.files[i].path \notin PathsOf(mgOverlay.files)
            /\ mgOut.files[i].overwrite # "true"

\* the calls of one attempt among the given operations
CallsOf(a, ops) ==
    {i \in 1..Len(invocations) : invocations[i].attempt = a /\ invocations[i].op \in ops}

GenerationOps == {"generator", "completion"}
CheckOps == {"validator", "buildChecker"}
ExternalOps == GenerationOps \cup {"buildChecker", "repair"}

\* C23: within one executor call at most one generator, validator,
\* completion, build-check or repair invocation is in flight at any time,
\* and attempt k+1 starts only after every invocation of attempt k finished.
C23_OneInvocationInFlight ==
    /\ Cardinality({i \in 1..Len(invocations) : ~invocations[i].done}) <= 1
    /\ \A i, j \in 1..Len(invocations) :
            i < j => /\ invocations[i].done
                     /\ invocations[i].attempt <= invocations[j].attempt
    /\ pc \in ExternalOps <=>
            /\ invocations # << >>
            /\ ~invocations[Len(invocations)].done
            /\ invocations[Len(invocations)].op = pc

\* the second attempt of executeWithBuildCheck awaits its repair call
C23_Witness ==
    /\ fn = "executeWithBuildCheck"
    /\ pc = "repair"
    /\ attempts = 2
    /\ Len(invocations) = 6
    /\ ~invocations[6].done

\* C24: in every executor call the generation call and the validator or
\* build checker are each invoked at most once per attempt, hence at most
\* MAX_REPAIR_ATTEMPTS + 1 times per call, and neither is invoked after an
\* attempt that succeeded.
C24_OncePerAttempt ==
    /\ \A i \in 1..Len(invocations) :
            /\ invocations[i].attempt \in 1..(MAX_REPAIR_ATTEMPTS + 1)
            /\ Cardinality(CallsOf(invocations[i].attempt, GenerationOps)) <= 1
            /\ Cardinality(CallsOf(invocations[i].attempt, CheckOps)) <= 1
    /\ Cardinality({i \in 1..Len(invocations) : invocations[i].op \in GenerationOps})
            <= MAX_REPAIR_ATTEMPTS + 1
    /\ Cardinality({i \in 1..Len(invocations) : invocations[i].op \in CheckOps})
            <= MAX_REPAIR_ATTEMPTS + 1
    /\ result.success =>
            /\ invocations[Len(invocations)].op \in CheckOps
            /\ invocations[Len(invocations)].attempt = result.attempts
            /\ \A i \in 1..Len(invocations) : invocations[i].attempt <= result.attempts

\* a call that generated and checked in each of its three attempts
C24_Witness ==
    /\ pc = "returned"
    /\ \A a \in 1..(MAX_REPAIR_ATTEMPTS + 1) :
            /\ Cardinality(CallsOf(a, GenerationOps)) = 1
            /\ Cardinality(CallsOf(a, CheckOps)) = 1

\* C25 as stated: every executor call reaches a terminal state, Succeeded or
\* Exhausted, after at most MAX_REPAIR_ATTEMPTS + 1 attempts, provided every
\* external call returns or throws.
C25_CallTerminates ==
    [](pc # "idle" =>
        <>(pc = "returned" /\ result.attempts \in 1..(MAX_REPAIR_ATTEMPTS + 1)))

\* C26: whenever an executor call returns success = true, the data is the
\* value produced in the final attempt and accepted in that same attempt by
\* the validator, parseAndValidate or the build checker.
C26_DataIsAcceptedFinalValue ==
    result.success =>
        /\ produced.attempt = result.attempts
        /\ produced.value = result.data
        /\ produced.accepted = result.data

\* a success of the second attempt whose value differs from the repaired code
C26_Witness ==
    /\ result.success
    /\ fn = "executeWithBuildCheck"
    /\ result.attempts = 2
    /\ repairOut.attempt = 1
    /\ repairOut.code # result.data

\* the repairLog a returned call handed to its caller
ReturnedLog(c) == shArrays[shResult[c].repairLog]

\* C22 as stated: when two executor calls on the same SelfHealingCortex
\* instance overlap, the repairLog returned by each call contains only
\* entries produced by that call's own attempts.
C22_LogHoldsOwnEntries ==
    \A c \in Calls :
        shPc[c] = "returned" =>
            \A i \in 1..Len(ReturnedLog(c)) : ReturnedLog(c)[i].call = c

\* the schema attempt k of the database loop is to apply
SchemaOfAttempt(k) == IF k = 1 THEN GeneratedSchema ELSE spFixes[k - 1].out

\* C27: in the database loop of spawnApp attempt 1 applies the schema
\* generated from the parsed blueprint, and each later attempt k+1 applies
\* exactly the schema returned by the repair call that was given the schema
\* and the error of attempt k.
C27_AttemptAppliesRepairedSchema ==
    /\ \A i \in 1..Len(spFixes) :
            /\ spFixes[i].attempt = i
            /\ spFixes[i].schema = SchemaOfAttempt(i)
    /\ spPc \in {"write", "push", "generate", "fix"} =>
            /\ Len(spFixes) = spAttempts - 1
            /\ spCurrentSchema = SchemaOfAttempt(spAttempts)
    /\ spPc \in {"push", "generate"} =>
            /\ spDiskSchema = SchemaOfAttempt(spAttempts)
            /\ spApplied[Len(spApplied)] = SchemaOfAttempt(spAttempts)
    /\ spPc = "fix" =>
            spArg = FixSchemaPrompt(SchemaOfAttempt(spAttempts), spLastError)
    /\ \A i \in 1..Len(spFixes) :
            (spPc = "fix" /\ i = spAttempts - 1) \/ i < spAttempts
    /\ \A i \in 1..Len(spApplied) :
            \E k \in 1..spAttempts : spApplied[i] = SchemaOfAttempt(k)

\* the third attempt pushes the schema of the second repair, the two
\* repairs having returned different schemas
C27_Witness ==
    /\ spPc = "push"
    /\ spAttempts = 3
    /\ Len(spFixes) = 2
    /\ spFixes[1].out # spFixes[2].out
    /\ spFixes[1].error # spFixes[2].error
    /\ spDiskSchema = spFixes[2].out

C30_RegenerationsDoNotOverlap ==
    Cardinality({r \in 1..Len(pvRuns) : pvRuns[r].pc = "generate"}) <= 1

====
